---- MODULE Spec2Model ----
(***************************************************************************)
(* Verification model of the validator-side integrity and scoring code of  *)
(* chainswarm-patterns-subnet:                                             *)
(*   core/validator/anti_gaming.py       (hashing, dedup, first discovery,  *)
(*                                        gaming analysis, rate limit)      *)
(*   core/validator/pattern_processing.py (scores, reputation, complexity)  *)
(*   core/validator/blockchain_integration.py (on-chain verification)       *)
(*   core/protocol.py                    (graph, DetectedPattern)           *)
(*   core/miner/database.py              (patterns and acknowledgments)     *)
(*                                                                         *)
(* Conventions                                                             *)
(*   - a str is a sequence of code points, so that str.lower() and the     *)
(*     ordering of strings are computed, not assumed;                      *)
(*   - a Decimal is [coef, exp], standing for coef / 10^exp;               *)
(*   - floats in [0, 1]-like ranges are fixed point, 1.0 = 1000;           *)
(*   - sha256 is collision free: a digest is its input under a tag.        *)
(***************************************************************************)
EXTENDS Integers, Sequences, FiniteSets, TLC

\* ------------------------------------------------------------------ bounds
MaxEdges == 2
MaxClock == 602
MaxUpdates == 3
MaxChecks == 4
MaxCalls == 3
MaxCount == 2
MaxRateClock == 3602
MaxRateCalls == 12
MaxRecent == 6
MaxGraphEdges == 3
MaxPatterns == 2
MaxAcks == 2
MaxLookups == 2
MaxCoordRecent == 2
MaxTraversalEdges == 4
MaxStack == 6

\* ------------------------------------------------------------- state
VARIABLES
    clock,               \* int(time.time())
    discovery_registry,  \* FirstDiscoveryEnforcement.discovery_registry
    regPc,               \* per caller: position inside register_pattern_discovery
    regLocal,            \* per caller: locals of the call in progress
    regResult,           \* per caller: DiscoveryRegistrationResult of its last call
    regCalled,           \* history: canonical digests some call has been made for
    regFirsts,           \* history: per digest, calls that returned is_first_discovery
    regCalls,            \* history: calls of register_pattern_discovery begun
    stored_pattern_hashes, \* PatternDeduplicationEngine.stored_pattern_hashes
    graph_signatures,    \* PatternDeduplicationEngine.graph_signatures
    dupPc,               \* per caller: position inside is_duplicate_pattern
    dupLocal,            \* per caller: locals of the check in progress
    dupResult,           \* per caller: what its last finished check returned
    dupLog,              \* history: the checks made one after the other
    rep,                 \* one MinerReputation
    updPc,               \* per caller: position inside update_with_pattern
    updLocal,            \* per caller: the pattern and the value read by '+='
    updDone,             \* history: calls of update_with_pattern that returned
    updVerified,         \* history: whole calls made with a pattern of status "verified"
    updLast,             \* history: the pattern of the last whole call
    args,                \* arguments of a call of a pure function
    ret,                 \* what that call returned
    submission_rate_limits, \* RealTimeGamingPrevention.submission_rate_limits
    rateLog,             \* history: per miner, the calls of validate_submission_rate
    ratePc,              \* per caller: position inside validate_submission_rate
    rateLocal,           \* per caller: locals of the call in progress
    patterns,            \* miner database: the rows of table patterns
    acknowledged_patterns, \* miner database: the rows of table acknowledged_patterns
    ackPc,               \* per session: position inside acknowledge_pattern
    ackLocal,            \* per session: arguments of the call in progress
    ackReturned,         \* history: what the calls of acknowledge_pattern returned
    ackCalls,            \* history: calls of acknowledge_pattern begun
    lastGet,             \* history: the last call of get_unacknowledged_patterns
    constructed,         \* the last DetectedPattern(...) call and its outcome
    travStack,           \* graph traversal: the frames of the recursive calls in progress
    travIndex,           \* graph traversal: the node the loop over graph.nodes is at
    travAcc,             \* graph traversal: max_depth or cycles of the outer loop
    travVisited,         \* graph traversal: the set visited of _count_cycles
    blacklistFrames      \* miner axon: the nested calls of blacklist_pattern_query in progress

regVars == <<clock, discovery_registry, regPc, regLocal, regResult, regCalled, regFirsts, regCalls>>
dedupVars == <<stored_pattern_hashes, graph_signatures, dupPc, dupLocal, dupResult, dupLog>>
repVars == <<rep, updPc, updLocal, updDone, updVerified, updLast>>
fnVars == <<args, ret>>
rateVars == <<submission_rate_limits, rateLog, ratePc, rateLocal>>
dbVars == <<patterns, acknowledged_patterns, ackPc, ackLocal, ackReturned, ackCalls, lastGet>>
subVars == <<constructed>>
travVars == <<travStack, travIndex, travAcc, travVisited>>
axonVars == <<blacklistFrames>>

vars == <<regVars, dedupVars, repVars, fnVars, rateVars, dbVars, subVars, travVars, axonVars>>

Threads == {"t1", "t2"}
Miners == {"minerA", "minerB"}
None == "None"

\* ------------------------------------------------------------- strings
\* str.lower() on one ASCII code point
Lower(c) == IF c >= 65 /\ c <= 90 THEN c + 32 ELSE c

\* the address left as given
StrLowerIdentity(s) == s

\* str.lower()
StrLower(s) == [i \in 1..Len(s) |-> Lower(s[i])]

\* str < str : lexicographic on code points
RECURSIVE StrLess(_, _)
StrLess(s, t) ==
    IF s = <<>> THEN t # <<>>
    ELSE IF t = <<>> THEN FALSE
    ELSE IF s[1] # t[1] THEN s[1] < t[1]
    ELSE StrLess(Tail(s), Tail(t))

\* decimal digits of a natural number, as code points
RECURSIVE Digits(_)
Digits(n) == IF n < 10 THEN <<48 + n>> ELSE Append(Digits(n \div 10), 48 + (n % 10))

\* str(Decimal): the digits of the coefficient with the point before the
\* last exp digits; 1.0 and 1.00 print differently
DecimalStr(a) ==
    LET ds == Digits(a.coef)
        n  == Len(ds)
    IN  IF a.exp = 0 THEN ds
        ELSE SubSeq(ds, 1, n - a.exp) \o <<46>> \o SubSeq(ds, n - a.exp + 1, n)

RECURSIVE Pow10(_)
Pow10(k) == IF k = 0 THEN 1 ELSE 10 * Pow10(k - 1)

\* round(float(amount), 6), in units of 10^-6 (ties to even)
Round6(a) ==
    LET s7 == a.coef * Pow10(7 - a.exp)
        q  == s7 \div 10
        r  == s7 % 10
    IN  IF r > 5 \/ (r = 5 /\ q % 2 = 1) THEN q + 1 ELSE q

\* list.sort(): the stable sort of s, where less[i][j] tells whether s[i]
\* sorts before s[j]; given by the rank of every element
StableSort(s, less) ==
    LET n == Len(s)
        rank(i) == 1 + Cardinality({j \in 1..n :
                        less[j][i] \/ (~less[i][j] /\ ~less[j][i] /\ j < i)})
    IN  [k \in 1..n |-> s[CHOOSE i \in 1..n : rank(i) = k]]

\* hashlib.sha256(json.dumps(x).encode()).hexdigest(), collision free
Sha256(x) == <<"sha256", x>>

\* ------------------------------------------------------- exact digest
\* the tuple appended for one edge in _calculate_pattern_hash
ExactTuple(e) ==
    <<StrLower(e.from_address), StrLower(e.to_address), DecimalStr(e.amount), e.timestamp>>

\* tuple < tuple for (str, str, str, int)
ExactTupleLess(x, y) ==
    IF x[1] # y[1] THEN StrLess(x[1], y[1])
    ELSE IF x[2] # y[2] THEN StrLess(x[2], y[2])
    ELSE IF x[3] # y[3] THEN StrLess(x[3], y[3])
    ELSE x[4] < y[4]

\* the hash input of _calculate_pattern_hash: normalized, sorted edges
ExactHashInput(edges) ==
    LET normalized_edges == [i \in 1..Len(edges) |-> ExactTuple(edges[i])]
    IN  StableSort(normalized_edges,
            [i \in 1..Len(edges) |-> [j \in 1..Len(edges) |->
                ExactTupleLess(normalized_edges[i], normalized_edges[j])]])

_calculate_pattern_hash(edges) == Sha256(ExactHashInput(edges))

\* --------------------------------------------------- canonical digest
\* the tuple with the addresses left as given
CanonicalTupleCaseSensitive(e) ==
    <<e.from_address, e.to_address, Round6(e.amount), e.timestamp>>

\* the tuple appended for one edge in _calculate_canonical_pattern_hash
CanonicalTuple(e) ==
    <<StrLower(e.from_address), StrLower(e.to_address), Round6(e.amount), e.timestamp>>

\* key=lambda x: (x[3], x[2])
CanonicalKeyLess(x, y) ==
    IF x[4] # y[4] THEN x[4] < y[4] ELSE x[3] < y[3]

CanonicalHashInput(edges) ==
    LET normalized_edges == [i \in 1..Len(edges) |-> CanonicalTuple(edges[i])]
    IN  StableSort(normalized_edges,
            [i \in 1..Len(edges) |-> [j \in 1..Len(edges) |->
                CanonicalKeyLess(normalized_edges[i], normalized_edges[j])]])

_calculate_canonical_pattern_hash(edges) == Sha256(CanonicalHashInput(edges))

\* ------------------------------------------------------ test patterns
Edge(f, t, a, ts) == [from_address |-> f, to_address |-> t, amount |-> a, timestamp |-> ts]

\* "aB", "Ab", "c1"
AddrA == <<97, 66>>
AddrAalt == <<65, 98>>
AddrC == <<99, 49>>

Dec(c, e) == [coef |-> c, exp |-> e]

\* the patterns submitted to the registry and the dedup engine:
\* the first two differ in letter case and in the 7th decimal only
SubmittedPatterns ==
    { [nodes |-> <<AddrA, AddrC>>, edges |-> <<Edge(AddrA, AddrC, Dec(10000001, 7), 5)>>],
      [nodes |-> <<AddrAalt, AddrC>>, edges |-> <<Edge(AddrAalt, AddrC, Dec(1, 0), 5)>>],
      [nodes |-> <<AddrC, AddrA>>, edges |-> <<Edge(AddrC, AddrA, Dec(2, 0), 5)>>] }

\* ------------------------------------------- first-discovery registry
grace_period == 300

TickSteps == {300, 301}

NoResult == [kind |-> None]
NoCall == [kind |-> None]

\* the grace period taken as ending before its last second
ExistingDiscoveryResultStrict(first_discovery, current_time) ==
    IF current_time - first_discovery.timestamp < grace_period
    THEN [kind |-> "result", is_first_discovery |-> FALSE, is_within_grace_period |-> TRUE,
          first_discoverer |-> first_discovery.miner_hotkey,
          discovery_timestamp |-> first_discovery.timestamp, credit_multiplier |-> "0.5"]
    ELSE [kind |-> "result", is_first_discovery |-> FALSE, is_within_grace_period |-> FALSE,
          first_discoverer |-> first_discovery.miner_hotkey,
          discovery_timestamp |-> first_discovery.timestamp, credit_multiplier |-> "0.0"]

\* the result returned for a digest that is already registered (lines 266-287)
ExistingDiscoveryResult(first_discovery, current_time) ==
    IF current_time - first_discovery.timestamp <= grace_period
    THEN [kind |-> "result", is_first_discovery |-> FALSE, is_within_grace_period |-> TRUE,
          first_discoverer |-> first_discovery.miner_hotkey,
          discovery_timestamp |-> first_discovery.timestamp, credit_multiplier |-> "0.5"]
    ELSE [kind |-> "result", is_first_discovery |-> FALSE, is_within_grace_period |-> FALSE,
          first_discoverer |-> first_discovery.miner_hotkey,
          discovery_timestamp |-> first_discovery.timestamp, credit_multiplier |-> "0.0"]

\* the result returned after inserting the record (lines 295-301)
FirstDiscoveryResult(miner_hotkey, current_time) ==
    [kind |-> "result", is_first_discovery |-> TRUE, is_within_grace_period |-> FALSE,
     first_discoverer |-> miner_hotkey, discovery_timestamp |-> current_time,
     credit_multiplier |-> "1.0"]

\* self.discovery_registry[pattern_hash] = {...} (lines 290-293)
RegistryInsert(registry, pattern_hash, miner_hotkey, current_time) ==
    (pattern_hash :> [miner_hotkey |-> miner_hotkey, timestamp |-> current_time])
        @@ [h \in DOMAIN registry \ {pattern_hash} |-> registry[h]]

\* the record replaced by the later submitter's
RegistryAfterExistingOverwrite(registry, pattern_hash, miner_hotkey, current_time) ==
    RegistryInsert(registry, pattern_hash, miner_hotkey, current_time)

\* the registry after a call that found the digest registered: untouched
RegistryAfterExisting(registry, pattern_hash, miner_hotkey, current_time) == registry

\* what a finished call leaves behind for the properties: its result with
\* its inputs, and the history of calls
Returned(t, h, m, now, res) ==
    /\ regResult' = [regResult EXCEPT ![t] =
                        [res EXCEPT !.kind = "result"] @@
                        [pattern_hash |-> h, miner_hotkey |-> m, current_time |-> now,
                         first_call |-> h \notin regCalled,
                         recorded |-> IF h \in DOMAIN discovery_registry
                                      THEN discovery_registry[h].timestamp ELSE now]]
    /\ regCalled' = regCalled \cup {h}
    /\ regFirsts' = IF res.is_first_discovery
                    THEN (h :> (IF h \in DOMAIN regFirsts /\ regFirsts[h] >= 1 THEN 2 ELSE 1))
                            @@ [d \in DOMAIN regFirsts \ {h} |-> regFirsts[d]]
                    ELSE regFirsts


\* time passes
Tick ==
    /\ \E dt \in TickSteps :
        /\ clock + dt <= MaxClock
        /\ clock' = clock + dt
    /\ UNCHANGED <<discovery_registry, regPc, regLocal, regResult, regCalled, regFirsts, regCalls>>
    /\ UNCHANGED <<dedupVars, repVars, fnVars, rateVars, dbVars, travVars, subVars, axonVars>>

\* FirstDiscoveryEnforcement.register_pattern_discovery, one whole call
register_pattern_discovery(t, pattern, miner_hotkey) ==
    LET pattern_hash == _calculate_canonical_pattern_hash(pattern.edges)
        current_time == clock
    IN  /\ regPc[t] = "idle"
        /\ regCalls < MaxCalls
        /\ regCalls' = regCalls + 1
        /\ IF pattern_hash \in DOMAIN discovery_registry
           THEN /\ discovery_registry' =
                       RegistryAfterExisting(discovery_registry, pattern_hash, miner_hotkey, current_time)
                /\ Returned(t, pattern_hash, miner_hotkey, current_time,
                       ExistingDiscoveryResult(discovery_registry[pattern_hash], current_time))
           ELSE /\ discovery_registry' =
                       RegistryInsert(discovery_registry, pattern_hash, miner_hotkey, current_time)
                /\ Returned(t, pattern_hash, miner_hotkey, current_time,
                       FirstDiscoveryResult(miner_hotkey, current_time))
        /\ UNCHANGED <<clock, regPc, regLocal>>
        /\ UNCHANGED <<dedupVars, repVars, fnVars, rateVars, dbVars, travVars, subVars, axonVars>>

Register ==
    \E t \in Threads, p \in SubmittedPatterns, m \in Miners : register_pattern_discovery(t, p, m)

NextRegistry == Tick \/ Register

\* ---- register_pattern_discovery called from several threads: the call is
\* three steps, and another thread may run between any two of them

\* lines 262-263: the digest and the time are taken
RegBegin(t, pattern, miner_hotkey) ==
    /\ regPc[t] = "idle"
    /\ regCalls < MaxCalls
    /\ regCalls' = regCalls + 1
    /\ regPc' = [regPc EXCEPT ![t] = "check"]
    /\ regLocal' = [regLocal EXCEPT ![t] =
                        [kind |-> "locals",
                         pattern_hash |-> _calculate_canonical_pattern_hash(pattern.edges),
                         miner_hotkey |-> miner_hotkey, current_time |-> clock]]
    /\ UNCHANGED <<clock, discovery_registry, regResult, regCalled, regFirsts>>
    /\ UNCHANGED <<dedupVars, repVars, fnVars, rateVars, dbVars, travVars, subVars, axonVars>>

\* lines 266-287: the membership test, and the return when the digest is known
RegCheck(t) ==
    LET l == regLocal[t] IN
    /\ regPc[t] = "check"
    /\ IF l.pattern_hash \in DOMAIN discovery_registry
       THEN /\ discovery_registry' =
                   RegistryAfterExisting(discovery_registry, l.pattern_hash, l.miner_hotkey, l.current_time)
            /\ Returned(t, l.pattern_hash, l.miner_hotkey, l.current_time,
                   ExistingDiscoveryResult(discovery_registry[l.pattern_hash], l.current_time))
            /\ regPc' = [regPc EXCEPT ![t] = "idle"]
            /\ regLocal' = [regLocal EXCEPT ![t] = NoResult]
       ELSE /\ regPc' = [regPc EXCEPT ![t] = "insert"]
            /\ UNCHANGED <<discovery_registry, regLocal, regResult, regCalled, regFirsts>>
    /\ UNCHANGED <<clock, regCalls>>
    /\ UNCHANGED <<dedupVars, repVars, fnVars, rateVars, dbVars, travVars, subVars, axonVars>>

\* lines 290-301: the insert, and the return of a first discovery
RegInsert(t) ==
    LET l == regLocal[t] IN
    /\ regPc[t] = "insert"
    /\ discovery_registry' =
           RegistryInsert(discovery_registry, l.pattern_hash, l.miner_hotkey, l.current_time)
    /\ Returned(t, l.pattern_hash, l.miner_hotkey, l.current_time,
           FirstDiscoveryResult(l.miner_hotkey, l.current_time))
    /\ regPc' = [regPc EXCEPT ![t] = "idle"]
    /\ regLocal' = [regLocal EXCEPT ![t] = NoResult]
    /\ UNCHANGED <<clock, regCalls>>
    /\ UNCHANGED <<dedupVars, repVars, fnVars, rateVars, dbVars, travVars, subVars, axonVars>>

RegBeginAny == \E t \in Threads, p \in SubmittedPatterns, m \in Miners : RegBegin(t, p, m)
RegCheckAny == \E t \in Threads : RegCheck(t)
RegInsertAny == \E t \in Threads : RegInsert(t)

NextRegistryConc == Tick \/ RegBeginAny \/ RegCheckAny \/ RegInsertAny

\* ------------------------------------------------- deduplication engine
similarity_threshold == 850

\* abs()
Abs(x) == IF x < 0 THEN 0 - x ELSE x
Max(a, b) == IF a > b THEN a ELSE b
Min(a, b) == IF a < b THEN a ELSE b

Raised(e) == [raised |-> e]
Value(v) == [raised |-> None, value |-> v]

\* GraphSignature.similarity_score; the three divisions raise when both
\* counts are zero
similarity_score(self, other) ==
    IF \/ Max(self.node_count, other.node_count) = 0
       \/ Max(self.edge_count, other.edge_count) = 0
       \/ Max(self.max_degree, other.max_degree) = 0
    THEN Raised("ZeroDivisionError")
    ELSE LET node_diff == (Abs(self.node_count - other.node_count) * 1000)
                              \div Max(self.node_count, other.node_count)
             edge_diff == (Abs(self.edge_count - other.edge_count) * 1000)
                              \div Max(self.edge_count, other.edge_count)
             degree_diff == (Abs(self.max_degree - other.max_degree) * 1000)
                              \div Max(self.max_degree, other.max_degree)
             similarity == 1000 - ((node_diff + edge_diff + degree_diff) \div 3)
         IN  Value(Max(0, similarity))

\* _calculate_max_degree: the largest number of edge ends at one address
_calculate_max_degree(graph) ==
    LET ends(a) == Cardinality({i \in 1..Len(graph.edges) : graph.edges[i].from_address = a})
                 + Cardinality({i \in 1..Len(graph.edges) : graph.edges[i].to_address = a})
        touched == {graph.edges[i].from_address : i \in 1..Len(graph.edges)}
                   \cup {graph.edges[i].to_address : i \in 1..Len(graph.edges)}
    IN  IF touched = {} THEN 0
        ELSE CHOOSE d \in {ends(a) : a \in touched} : \A a \in touched : ends(a) <= d

\* TransactionGraph.get_edges_from_address
get_edges_from_address(graph, address) ==
    SelectSeq(graph.edges, LAMBDA edge : edge.from_address = address)

\* _dfs_cycle_detection (pattern_processing.py) and _dfs_cycle_count
\* (anti_gaming.py), the same code twice: the cycles found from address,
\* and global_visited as the call leaves it. DfsOverEdges is the loop over
\* the outgoing edges, each followed with a copy of path.
RECURSIVE _dfs_cycle_detection(_, _, _, _)
RECURSIVE DfsOverEdges(_, _, _, _)
DfsOverEdges(graph, outgoing_edges, path, sofar) ==
    IF outgoing_edges = << >> THEN sofar
    ELSE LET found == _dfs_cycle_detection(graph, Head(outgoing_edges).to_address,
                                           path, sofar.global_visited)
         IN  DfsOverEdges(graph, Tail(outgoing_edges), path,
                          [cycles |-> sofar.cycles + found.cycles,
                           global_visited |-> found.global_visited])

_dfs_cycle_detection(graph, address, path, global_visited) ==
    IF address \in path THEN [cycles |-> 1, global_visited |-> global_visited]
    ELSE IF address \in global_visited THEN [cycles |-> 0, global_visited |-> global_visited]
    ELSE DfsOverEdges(graph, get_edges_from_address(graph, address), path \cup {address},
                      [cycles |-> 0, global_visited |-> global_visited \cup {address}])

\* the loop of _count_cycles over graph.nodes from the i-th node on
RECURSIVE CountCyclesFrom(_, _, _)
CountCyclesFrom(graph, i, sofar) ==
    IF i > Len(graph.nodes) THEN sofar.cycles
    ELSE IF graph.nodes[i] \in sofar.global_visited THEN CountCyclesFrom(graph, i + 1, sofar)
    ELSE LET found == _dfs_cycle_detection(graph, graph.nodes[i], {}, sofar.global_visited)
         IN  CountCyclesFrom(graph, i + 1,
                             [cycles |-> sofar.cycles + found.cycles,
                              global_visited |-> found.global_visited])

\* the search started afresh at every node, nothing remembered between them
RECURSIVE CountCyclesForgetful(_, _)
CountCyclesForgetful(graph, i) ==
    IF i > Len(graph.nodes) THEN 0
    ELSE _dfs_cycle_detection(graph, graph.nodes[i], {}, {}).cycles
             + CountCyclesForgetful(graph, i + 1)

_count_cycles_forgetful(graph) == CountCyclesForgetful(graph, 1)

\* _count_cycles, in both files
_count_cycles(graph) == CountCyclesFrom(graph, 1, [cycles |-> 0, global_visited |-> {}])

\* _dfs_max_depth: every outgoing edge is followed with a copy of visited
RECURSIVE _dfs_max_depth(_, _, _)
_dfs_max_depth(graph, address, visited) ==
    IF address \in visited THEN 0
    ELSE LET outgoing_edges == get_edges_from_address(graph, address)
             depths == {1 + _dfs_max_depth(graph, outgoing_edges[i].to_address,
                                           visited \cup {address}) :
                           i \in 1..Len(outgoing_edges)}
         IN  IF depths = {} THEN 0
             ELSE CHOOSE d \in depths : \A e \in depths : e <= d

\* _calculate_graph_depth
_calculate_graph_depth(graph) ==
    LET depths == {_dfs_max_depth(graph, graph.nodes[i], {}) : i \in 1..Len(graph.nodes)}
    IN  IF depths = {} THEN 0
        ELSE CHOOSE d \in depths : \A e \in depths : e <= d

\* TransactionGraph.get_unique_addresses
get_unique_addresses(graph) ==
    {graph.edges[i].from_address : i \in 1..Len(graph.edges)}
        \cup {graph.edges[i].to_address : i \in 1..Len(graph.edges)}

\* calculate_pattern_complexity: no test of the size of the graph comes
\* before the depth and cycle analysis, and nothing in it raises
calculate_pattern_complexity(graph) ==
    IF Len(graph.edges) = 0 THEN Value(0)
    ELSE LET node_count == Len(graph.nodes)
             edge_count == Len(graph.edges)
             unique_addresses == Cardinality(get_unique_addresses(graph))
             graph_depth == _calculate_graph_depth(graph)
             branching_bonus == IF node_count > 0
                                THEN Min(200, (edge_count * 100) \div node_count)
                                ELSE 0
             cycle_count == _count_cycles(graph)
             base_score == Min(1000, graph_depth * unique_addresses * 10)
             cycle_bonus == Min(300, cycle_count * 100)
         IN  Value(Min(1000, base_score + cycle_bonus + branching_bonus))

\* _calculate_graph_signature, the fields similarity_score reads, the cycle
\* count and the diameter (len(graph.nodes)); the graph is analysed
\* whatever its size
_calculate_graph_signature(pattern) ==
    [node_count |-> Len(pattern.nodes), edge_count |-> Len(pattern.edges),
     max_degree |-> _calculate_max_degree(pattern), cycle_count |-> _count_cycles(pattern),
     diameter |-> Len(pattern.nodes)]

\* _find_similar_signatures: the stored ids whose similarity exceeds 0.7
_find_similar_signatures(signatures, signature) ==
    {id \in DOMAIN signatures :
        LET sim == similarity_score(signature, signatures[id])
        IN  sim.raised = None /\ sim.value > 700}

\* _calculate_detailed_similarity: the placeholder
_calculate_detailed_similarity(pattern, pattern2_id) == 0

\* levels 2 and 3 of is_duplicate_pattern (lines 120-129)
StructuralDuplicates(signatures, pattern) ==
    {id \in _find_similar_signatures(signatures, _calculate_graph_signature(pattern)) :
        _calculate_detailed_similarity(pattern, id) > similarity_threshold}

\* what is_duplicate_pattern returns for a digest and the corpus it sees
DuplicateAnswer(hashes, signatures, pattern_hash, pattern) ==
    IF pattern_hash \in DOMAIN hashes
    THEN [kind |-> "answer", pattern_hash |-> pattern_hash, is_duplicate |-> TRUE,
          similar |-> {hashes[pattern_hash]}]
    ELSE IF StructuralDuplicates(signatures, pattern) # {}
    THEN [kind |-> "answer", pattern_hash |-> pattern_hash, is_duplicate |-> TRUE,
          similar |-> {CHOOSE id \in StructuralDuplicates(signatures, pattern) : TRUE}]
    ELSE [kind |-> "answer", pattern_hash |-> pattern_hash, is_duplicate |-> FALSE,
          similar |-> {}]

\* the exact-digest map after a check: is_duplicate_pattern writes nothing
StoredHashesAfterCheck(hashes, answer) == hashes

\* the signature map after a check: is_duplicate_pattern writes nothing
SignaturesAfterCheck(signatures, answer, pattern) == signatures


\* PatternDeduplicationEngine.is_duplicate_pattern, one whole call
is_duplicate_pattern(t, new_pattern) ==
    LET pattern_hash == _calculate_pattern_hash(new_pattern.edges)
        answer == DuplicateAnswer(stored_pattern_hashes, graph_signatures, pattern_hash, new_pattern)
    IN  /\ dupPc[t] = "idle"
        /\ Len(dupLog) < MaxChecks
        /\ stored_pattern_hashes' = StoredHashesAfterCheck(stored_pattern_hashes, answer)
        /\ graph_signatures' = SignaturesAfterCheck(graph_signatures, answer, new_pattern)
        /\ dupLog' = Append(dupLog, answer @@ [pattern |-> new_pattern])
        /\ dupResult' = [dupResult EXCEPT ![t] = answer @@ [overlapped |-> {}]]
        /\ UNCHANGED <<dupPc, dupLocal>>
        /\ UNCHANGED <<regVars, repVars, fnVars, rateVars, dbVars, travVars, subVars, axonVars>>

CheckDuplicate == \E t \in Threads, p \in SubmittedPatterns : is_duplicate_pattern(t, p)

NextDedup == CheckDuplicate

\* ---- is_duplicate_pattern called from several threads

\* line 115: the exact digest is computed; the calls in progress overlap
DupBegin(t, new_pattern) ==
    LET running == {u \in Threads : dupPc[u] # "idle"} IN
    /\ dupPc[t] = "idle"
    /\ dupPc' = [dupPc EXCEPT ![t] = "level1"]
    /\ dupLocal' = [u \in Threads |->
                      IF u = t
                      THEN [kind |-> "locals", new_pattern |-> new_pattern,
                            pattern_hash |-> _calculate_pattern_hash(new_pattern.edges),
                            overlapped |-> running]
                      ELSE IF u \in running
                      THEN [dupLocal[u] EXCEPT !.overlapped = @ \cup {t}]
                      ELSE dupLocal[u]]
    /\ dupResult' = [dupResult EXCEPT ![t] = NoResult]
    /\ UNCHANGED <<stored_pattern_hashes, graph_signatures, dupLog>>
    /\ UNCHANGED <<regVars, repVars, fnVars, rateVars, dbVars, travVars, subVars, axonVars>>

\* lines 116-117: the lookup in the exact-digest map
DupLevel1(t) ==
    LET l == dupLocal[t] IN
    /\ dupPc[t] = "level1"
    /\ IF l.pattern_hash \in DOMAIN stored_pattern_hashes
       THEN LET answer == DuplicateAnswer(stored_pattern_hashes, graph_signatures,
                                          l.pattern_hash, l.new_pattern)
            IN  /\ dupResult' = [dupResult EXCEPT ![t] = answer @@ [overlapped |-> l.overlapped]]
                /\ stored_pattern_hashes' = StoredHashesAfterCheck(stored_pattern_hashes, answer)
                /\ graph_signatures' = SignaturesAfterCheck(graph_signatures, answer, l.new_pattern)
                /\ dupPc' = [dupPc EXCEPT ![t] = "idle"]
                /\ dupLocal' = [dupLocal EXCEPT ![t] = NoResult]
       ELSE /\ dupPc' = [dupPc EXCEPT ![t] = "level2"]
            /\ UNCHANGED <<stored_pattern_hashes, graph_signatures, dupLocal, dupResult>>
    /\ UNCHANGED dupLog
    /\ UNCHANGED <<regVars, repVars, fnVars, rateVars, dbVars, travVars, subVars, axonVars>>

\* lines 120-129: signature, candidates, detailed comparison, return
DupLevel23(t) ==
    LET l == dupLocal[t]
        answer == DuplicateAnswer(<< >>, graph_signatures, l.pattern_hash, l.new_pattern)
    IN  /\ dupPc[t] = "level2"
        /\ dupResult' = [dupResult EXCEPT ![t] = answer @@ [overlapped |-> l.overlapped]]
        /\ stored_pattern_hashes' = StoredHashesAfterCheck(stored_pattern_hashes, answer)
        /\ graph_signatures' = SignaturesAfterCheck(graph_signatures, answer, l.new_pattern)
        /\ dupPc' = [dupPc EXCEPT ![t] = "idle"]
        /\ dupLocal' = [dupLocal EXCEPT ![t] = NoResult]
        /\ UNCHANGED dupLog
        /\ UNCHANGED <<regVars, repVars, fnVars, rateVars, dbVars, travVars, subVars, axonVars>>

DupBeginAny == \E t \in Threads, p \in SubmittedPatterns : DupBegin(t, p)
DupLevel1Any == \E t \in Threads : DupLevel1(t)
DupLevel23Any == \E t \in Threads : DupLevel23(t)

NextDedupConc == DupBeginAny \/ DupLevel1Any \/ DupLevel23Any


\* ------------------------------------------------------------- scoring
\* ClassifiedPattern.get_final_score before the clamp: the weighted sum
WeightedScore(self) ==
    (self.confidence_score * 250 + self.complexity_score * 300 + self.recency_score * 200
        + self.volume_significance * 150 + self.uniqueness_score * 100) \div 1000

\* the weighted sum returned as it is
get_final_score_unclamped(self) == WeightedScore(self)

\* ClassifiedPattern.get_final_score
get_final_score(self) == Min(1000, Max(0, WeightedScore(self)))

\* ---------------------------------------------------------- reputation
\* MinerReputation(miner_hotkey): the dataclass defaults
DefaultReputation ==
    [total_patterns_submitted |-> 0, verified_patterns |-> 0, rejected_patterns |-> 0,
     average_pattern_score |-> 0, average_complexity_score |-> 0,
     verification_success_rate |-> 0,
     historical_pattern_ratio |-> 500, duplicate_submission_count |-> 0,
     gaming_penalty_score |-> 0,
     base_reputation_score |-> 1000, reputation_multiplier |-> 1000,
     first_submission_timestamp |-> 0, last_submission_timestamp |-> 0,
     reputation_update_timestamp |-> 0]

\* the average with alpha = 0.5
_update_running_average_half(current_value, new_value) ==
    (500 * new_value + 500 * current_value) \div 1000

\* _update_running_average: alpha * new_value + (1 - alpha) * current_value
_update_running_average(current_value, new_value) ==
    (100 * new_value + 900 * current_value) \div 1000

\* both bonuses are added when both conditions hold
RawMultiplierBothBonuses(self) ==
    LET balance_penalty == IF self.historical_pattern_ratio < 300
                           THEN (500 * (300 - self.historical_pattern_ratio)) \div 1000
                           ELSE 0
        gaming_penalty == Min(800, self.duplicate_submission_count * 100 + self.gaming_penalty_score)
        high == IF /\ self.verification_success_rate > 900
                   /\ self.average_pattern_score > 700
                   /\ self.total_patterns_submitted > 50
                THEN 300 ELSE 0
        low == IF /\ self.verification_success_rate > 800
                  /\ self.average_pattern_score > 600
               THEN 100 ELSE 0
    IN  self.base_reputation_score - balance_penalty - gaming_penalty + high + low

\* the multiplier before the clamp (lines 169-187)
RawMultiplier(self) ==
    LET balance_penalty == IF self.historical_pattern_ratio < 300
                           THEN (500 * (300 - self.historical_pattern_ratio)) \div 1000
                           ELSE 0
        gaming_penalty == Min(800, self.duplicate_submission_count * 100 + self.gaming_penalty_score)
        bonus == IF /\ self.verification_success_rate > 900
                    /\ self.average_pattern_score > 700
                    /\ self.total_patterns_submitted > 50
                 THEN 300
                 ELSE IF /\ self.verification_success_rate > 800
                         /\ self.average_pattern_score > 600
                 THEN 100
                 ELSE 0
    IN  self.base_reputation_score - balance_penalty - gaming_penalty + bonus

\* the multiplier stored as it is
_calculate_reputation_multiplier_unclamped(self) == RawMultiplier(self)

\* _calculate_reputation_multiplier: the value stored in reputation_multiplier
_calculate_reputation_multiplier(self) == Max(100, Min(2000, RawMultiplier(self)))

\* a pattern that is not verified counts as a duplicate submission too
UpdatedReputationCountingDuplicates(self, pattern, now) ==
    LET counted == [self EXCEPT !.total_patterns_submitted = @ + 1,
                                !.last_submission_timestamp = now]
        judged == IF pattern.verification_status = "verified"
                  THEN [counted EXCEPT
                          !.verified_patterns = @ + 1,
                          !.average_pattern_score =
                              _update_running_average(@, get_final_score(pattern)),
                          !.average_complexity_score =
                              _update_running_average(@, pattern.complexity_score)]
                  ELSE [counted EXCEPT !.rejected_patterns = @ + 1,
                                       !.duplicate_submission_count = @ + 1]
        rated == IF judged.total_patterns_submitted > 0
                 THEN [judged EXCEPT !.verification_success_rate =
                          (judged.verified_patterns * 1000) \div judged.total_patterns_submitted]
                 ELSE judged
    IN  [rated EXCEPT !.reputation_multiplier = _calculate_reputation_multiplier(rated),
                      !.reputation_update_timestamp = now]

\* only the status "failed" counts as rejected, "pending" as neither
UpdatedReputationFailedOnly(self, pattern, now) ==
    LET counted == [self EXCEPT !.total_patterns_submitted = @ + 1,
                                !.last_submission_timestamp = now]
        judged == IF pattern.verification_status = "verified"
                  THEN [counted EXCEPT
                          !.verified_patterns = @ + 1,
                          !.average_pattern_score =
                              _update_running_average(@, get_final_score(pattern)),
                          !.average_complexity_score =
                              _update_running_average(@, pattern.complexity_score)]
                  ELSE IF pattern.verification_status = "failed"
                  THEN [counted EXCEPT !.rejected_patterns = @ + 1]
                  ELSE counted
        rated == IF judged.total_patterns_submitted > 0
                 THEN [judged EXCEPT !.verification_success_rate =
                          (judged.verified_patterns * 1000) \div judged.total_patterns_submitted]
                 ELSE judged
    IN  [rated EXCEPT !.reputation_multiplier = _calculate_reputation_multiplier(rated),
                      !.reputation_update_timestamp = now]

\* the reputation after update_with_pattern(pattern) at time now
UpdatedReputation(self, pattern, now) ==
    LET counted == [self EXCEPT !.total_patterns_submitted = @ + 1,
                                !.last_submission_timestamp = now]
        judged == IF pattern.verification_status = "verified"
                  THEN [counted EXCEPT
                          !.verified_patterns = @ + 1,
                          !.average_pattern_score =
                              _update_running_average(@, get_final_score(pattern)),
                          !.average_complexity_score =
                              _update_running_average(@, pattern.complexity_score)]
                  ELSE [counted EXCEPT !.rejected_patterns = @ + 1]
        rated == IF judged.total_patterns_submitted > 0
                 THEN [judged EXCEPT !.verification_success_rate =
                          (judged.verified_patterns * 1000) \div judged.total_patterns_submitted]
                 ELSE judged
    IN  [rated EXCEPT !.reputation_multiplier = _calculate_reputation_multiplier(rated),
                      !.reputation_update_timestamp = now]

\* the classified patterns handed to update_with_pattern
ScoreValues == {0 - 2000, 0, 700, 1000, 3000}

ClassifiedPatterns ==
    {[verification_status |-> st, confidence_score |-> v, complexity_score |-> v,
      recency_score |-> v, volume_significance |-> v, uniqueness_score |-> v] :
        st \in {"verified", "failed", "pending"}, v \in ScoreValues \ {0}}

\* the anti-gaming fields no code sets: any values, given at construction
ConstructedReputations ==
    {[DefaultReputation EXCEPT !.historical_pattern_ratio = h,
                               !.duplicate_submission_count = d,
                               !.gaming_penalty_score = g] :
        h \in {0, 500}, d \in {0, 3}, g \in {0 - 5000, 0, 5000}}



\* a verified pattern whose scores are all v
SeasoningPattern(v) ==
    [verification_status |-> "verified", confidence_score |-> v, complexity_score |-> v,
     recency_score |-> v, volume_significance |-> v, uniqueness_score |-> v]

\* the first verified patterns of a seasoned miner score 1.0, the later
\* ones score what its average has come to and leave the average there
SeasoningRise == 12

\* a running average that started at 0, after n values 1.0
RECURSIVE AverageAfter(_)
AverageAfter(n) == IF n = 0 THEN 0 ELSE _update_running_average(AverageAfter(n - 1), 1000)

\* the reputation n calls update_with_pattern at time 0 make of a newly
\* constructed one, the calls made with SeasoningPattern(1.0) up to
\* SeasoningRise and with SeasoningPattern(average) after it
AfterUpdates(self, n) ==
    LET average == AverageAfter(Min(n, SeasoningRise))
        counted == [self EXCEPT !.total_patterns_submitted = n,
                                !.verified_patterns = n,
                                !.average_pattern_score = average,
                                !.average_complexity_score = average,
                                !.verification_success_rate = IF n > 0 THEN 1000 ELSE 0]
    IN  IF n = 0 THEN self
        ELSE [counted EXCEPT !.reputation_multiplier = _calculate_reputation_multiplier(counted)]

\* how many verified patterns a seasoned miner has behind it: enough for
\* an average score above 0.6, and enough for a total of 50
SeasoningCounts == {9, 50}

\* reputations with a history of verified patterns
SeasonedReputations ==
    {AfterUpdates(r, n) : r \in ConstructedReputations, n \in SeasoningCounts}

\* MinerReputation.update_with_pattern, one whole call
update_with_pattern(pattern) ==
    /\ updDone < MaxUpdates
    /\ rep' = UpdatedReputation(rep, pattern, clock)
    /\ updDone' = updDone + 1
    /\ updVerified' = IF pattern.verification_status = "verified"
                      THEN updVerified + 1 ELSE updVerified
    /\ updLast' = [kind |-> "pattern", pattern |-> pattern]
    /\ UNCHANGED <<updPc, updLocal>>
    /\ UNCHANGED <<regVars, dedupVars, fnVars, rateVars, dbVars, travVars, subVars, axonVars>>

UpdateReputation == \E pattern \in ClassifiedPatterns : update_with_pattern(pattern)

NextReputation == Tick \/ UpdateReputation

\* ---- update_with_pattern called from several threads on one
\* MinerReputation: 'x += 1' on an attribute is a read followed by a
\* write, and another thread may run between the two

\* calls begun and not yet returned
UpdInFlight == Cardinality({t \in Threads : updPc[t] # "idle"})

\* line 139, the read of self.total_patterns_submitted
UpdLoadTotal(t, pattern) ==
    /\ updPc[t] = "idle"
    /\ updDone + UpdInFlight < MaxUpdates
    /\ updLocal' = [updLocal EXCEPT ![t] =
                        [kind |-> "locals", pattern |-> pattern,
                         read |-> rep.total_patterns_submitted]]
    /\ updPc' = [updPc EXCEPT ![t] = "total"]
    /\ UNCHANGED <<rep, updDone, updVerified, updLast>>
    /\ UNCHANGED <<regVars, dedupVars, fnVars, rateVars, dbVars, travVars, subVars, axonVars>>

\* line 139, the write, and line 140
UpdStoreTotal(t) ==
    /\ updPc[t] = "total"
    /\ rep' = [rep EXCEPT !.total_patterns_submitted = updLocal[t].read + 1,
                          !.last_submission_timestamp = clock]
    /\ updPc' = [updPc EXCEPT ![t] = "judge"]
    /\ UNCHANGED <<updLocal, updDone, updVerified, updLast>>
    /\ UNCHANGED <<regVars, dedupVars, fnVars, rateVars, dbVars, travVars, subVars, axonVars>>

\* line 142, and the read of line 143 or of line 148
UpdLoadJudged(t) ==
    /\ updPc[t] = "judge"
    /\ updLocal' = [updLocal EXCEPT ![t].read =
                        IF updLocal[t].pattern.verification_status = "verified"
                        THEN rep.verified_patterns
                        ELSE rep.rejected_patterns]
    /\ updPc' = [updPc EXCEPT ![t] = "count"]
    /\ UNCHANGED <<rep, updDone, updVerified, updLast>>
    /\ UNCHANGED <<regVars, dedupVars, fnVars, rateVars, dbVars, travVars, subVars, axonVars>>

\* the write of line 143 with the averages of lines 145-146, or the
\* write of line 148
UpdStoreJudged(t) ==
    LET pattern == updLocal[t].pattern IN
    /\ updPc[t] = "count"
    /\ rep' = IF pattern.verification_status = "verified"
              THEN [rep EXCEPT
                      !.verified_patterns = updLocal[t].read + 1,
                      !.average_pattern_score =
                          _update_running_average(@, get_final_score(pattern)),
                      !.average_complexity_score =
                          _update_running_average(@, pattern.complexity_score)]
              ELSE [rep EXCEPT !.rejected_patterns = updLocal[t].read + 1]
    /\ updPc' = [updPc EXCEPT ![t] = "rate"]
    /\ UNCHANGED <<updLocal, updDone, updVerified, updLast>>
    /\ UNCHANGED <<regVars, dedupVars, fnVars, rateVars, dbVars, travVars, subVars, axonVars>>

\* lines 151-157: the success rate, the multiplier, the timestamp, and
\* the return
UpdFinish(t) ==
    LET rated == IF rep.total_patterns_submitted > 0
                 THEN [rep EXCEPT !.verification_success_rate =
                          (rep.verified_patterns * 1000) \div rep.total_patterns_submitted]
                 ELSE rep
    IN
    /\ updPc[t] = "rate"
    /\ rep' = [rated EXCEPT !.reputation_multiplier = _calculate_reputation_multiplier(rated),
                            !.reputation_update_timestamp = clock]
    /\ updPc' = [updPc EXCEPT ![t] = "idle"]
    /\ updLocal' = [updLocal EXCEPT ![t] = NoResult]
    /\ updDone' = updDone + 1
    /\ UNCHANGED <<updVerified, updLast>>
    /\ UNCHANGED <<regVars, dedupVars, fnVars, rateVars, dbVars, travVars, subVars, axonVars>>

UpdLoadTotalAny == \E t \in Threads, pattern \in ClassifiedPatterns : UpdLoadTotal(t, pattern)
UpdStoreTotalAny == \E t \in Threads : UpdStoreTotal(t)
UpdLoadJudgedAny == \E t \in Threads : UpdLoadJudged(t)
UpdStoreJudgedAny == \E t \in Threads : UpdStoreJudged(t)
UpdFinishAny == \E t \in Threads : UpdFinish(t)

NextReputationConc ==
    \/ Tick
    \/ UpdLoadTotalAny
    \/ UpdStoreTotalAny
    \/ UpdLoadJudgedAny
    \/ UpdStoreJudgedAny
    \/ UpdFinishAny

\* ------------------------------------------------------ reported score
\* the score reported for a classified pattern of the miner whose
\* reputation is rep: no code applies rep.reputation_multiplier to a score,
\* get_final_score() is the only score there is
ReportArgs == {[kind |-> "report", pattern |-> p] : p \in ClassifiedPatterns}

CallReportedScore ==
    /\ args.kind = "report" /\ ret.kind = None
    /\ ret' = [kind |-> "report", value |-> get_final_score(args.pattern)]
    /\ UNCHANGED <<args, rateVars, dbVars, travVars, subVars, axonVars, regVars, dedupVars, repVars>>

NextReportedScore == UpdateReputation \/ CallReportedScore

\* ---------------------------------------------------------- rate limit
\* the window of validate_submission_rate, in seconds (line 533)
rate_window == 3600
\* the number of submissions the window may hold (line 536)
max_per_hour == 10

RateSteps == {1799, 1801}

\* time passes between submissions
RateTick ==
    /\ \E dt \in RateSteps :
        /\ clock + dt <= MaxRateClock
        /\ clock' = clock + dt
    /\ UNCHANGED <<discovery_registry, regPc, regLocal, regResult, regCalled, regFirsts, regCalls>>
    /\ UNCHANGED <<dedupVars, repVars, fnVars, rateVars, dbVars, travVars, subVars, axonVars>>

\* the list of the miner, created empty if absent (lines 527-531)
TrackedSubmissions(limits, miner_hotkey) ==
    IF miner_hotkey \in DOMAIN limits THEN limits[miner_hotkey] ELSE << >>

\* the list kept as it is
RecentSubmissionsUnpruned(submissions, current_time) == submissions

\* [t for t in submissions if current_time - t < 3600]
RecentSubmissions(submissions, current_time) ==
    SelectSeq(submissions, LAMBDA t : current_time - t < rate_window)

\* what validate_submission_rate returns
RateAnswer(limits, miner_hotkey, current_time) ==
    Len(RecentSubmissions(TrackedSubmissions(limits, miner_hotkey), current_time)) < max_per_hour

\* every call appends current_time to the stored list, accepted or not
RateLimitsAfterRecordingAll(limits, miner_hotkey, current_time) ==
    LET tracked == TrackedSubmissions(limits, miner_hotkey)
        others == [m \in DOMAIN limits \ {miner_hotkey} |-> limits[m]]
    IN  others @@ (miner_hotkey :> Append(tracked, current_time))

\* submission_rate_limits after the call: a rejected call stores the list
\* unpruned (the pruned copy is local), an accepted one the pruned list
\* with current_time appended
RateLimitsAfter(limits, miner_hotkey, current_time) ==
    LET tracked == TrackedSubmissions(limits, miner_hotkey)
        submissions == RecentSubmissions(tracked, current_time)
        others == [m \in DOMAIN limits \ {miner_hotkey} |-> limits[m]]
    IN  IF Len(submissions) >= max_per_hour
        THEN others @@ (miner_hotkey :> tracked)
        ELSE others @@ (miner_hotkey :> Append(submissions, current_time))

\* history: the calls of validate_submission_rate made so far
RateCalls == Len(rateLog["minerA"]) + Len(rateLog["minerB"])

\* RealTimeGamingPrevention.validate_submission_rate, one whole call
validate_submission_rate(miner_hotkey) ==
    /\ RateCalls < MaxRateCalls
    /\ submission_rate_limits' = RateLimitsAfter(submission_rate_limits, miner_hotkey, clock)
    /\ rateLog' = [rateLog EXCEPT ![miner_hotkey] =
                      Append(@, [time |-> clock,
                                 accepted |-> RateAnswer(submission_rate_limits, miner_hotkey, clock)])]
    /\ UNCHANGED <<ratePc, rateLocal>>
    /\ UNCHANGED <<regVars, dedupVars, repVars, fnVars, dbVars, travVars, subVars, axonVars>>

ValidateRate == \E m \in Miners : validate_submission_rate(m)

NextRate == RateTick \/ ValidateRate

\* ---- validate_submission_rate called from several threads: the call is
\* three steps, and another thread may run between any two of them

\* the history of a stored list: one accepted call per timestamp
AcceptedAt(submissions) ==
    [i \in DOMAIN submissions |-> [time |-> submissions[i], accepted |-> TRUE]]

\* no call has been made yet
NoSubmissions == {<< >>}

\* minerA has made nine calls at time 0, one after the other
NineSubmissions == {"minerA" :> [i \in 1..(max_per_hour - 1) |-> 0]}

\* calls begun and not yet returned
RateInFlight == Cardinality({t \in Threads : ratePc[t] # "idle"})

\* lines 525-533: the time is taken, the list is created if absent, and
\* the pruned copy is bound to the local name
RateBegin(t, miner_hotkey) ==
    /\ ratePc[t] = "idle"
    /\ RateCalls + RateInFlight < MaxRateCalls
    /\ submission_rate_limits' =
           [m \in DOMAIN submission_rate_limits \ {miner_hotkey} |-> submission_rate_limits[m]]
           @@ (miner_hotkey :> TrackedSubmissions(submission_rate_limits, miner_hotkey))
    /\ rateLocal' = [rateLocal EXCEPT ![t] =
                         [kind |-> "locals", miner_hotkey |-> miner_hotkey,
                          current_time |-> clock,
                          submissions |-> RecentSubmissions(
                              TrackedSubmissions(submission_rate_limits, miner_hotkey), clock)]]
    /\ ratePc' = [ratePc EXCEPT ![t] = "check"]
    /\ UNCHANGED rateLog
    /\ UNCHANGED <<regVars, dedupVars, repVars, fnVars, dbVars, travVars, subVars, axonVars>>

\* lines 536-537: the length test, and the return of False
RateCheck(t) ==
    LET l == rateLocal[t] IN
    /\ ratePc[t] = "check"
    /\ IF Len(l.submissions) >= max_per_hour
       THEN /\ rateLog' = [rateLog EXCEPT ![l.miner_hotkey] =
                               Append(@, [time |-> l.current_time, accepted |-> FALSE])]
            /\ ratePc' = [ratePc EXCEPT ![t] = "idle"]
            /\ rateLocal' = [rateLocal EXCEPT ![t] = NoResult]
       ELSE /\ ratePc' = [ratePc EXCEPT ![t] = "store"]
            /\ UNCHANGED <<rateLog, rateLocal>>
    /\ UNCHANGED submission_rate_limits
    /\ UNCHANGED <<regVars, dedupVars, repVars, fnVars, dbVars, travVars, subVars, axonVars>>

\* lines 540-543: the append, the store and the return of True
RateStore(t) ==
    LET l == rateLocal[t] IN
    /\ ratePc[t] = "store"
    /\ submission_rate_limits' =
           [m \in DOMAIN submission_rate_limits \ {l.miner_hotkey} |-> submission_rate_limits[m]]
           @@ (l.miner_hotkey :> Append(l.submissions, l.current_time))
    /\ rateLog' = [rateLog EXCEPT ![l.miner_hotkey] =
                      Append(@, [time |-> l.current_time, accepted |-> TRUE])]
    /\ ratePc' = [ratePc EXCEPT ![t] = "idle"]
    /\ rateLocal' = [rateLocal EXCEPT ![t] = NoResult]
    /\ UNCHANGED <<regVars, dedupVars, repVars, fnVars, dbVars, travVars, subVars, axonVars>>

RateBeginAny == \E t \in Threads, m \in Miners : RateBegin(t, m)
RateCheckAny == \E t \in Threads : RateCheck(t)
RateStoreAny == \E t \in Threads : RateStore(t)

NextRateConc == RateTick \/ RateBeginAny \/ RateCheckAny \/ RateStoreAny

\* ------------------------------------------------------ gaming analysis
\* AdvancedAntiGamingSystem.pattern_farming_threshold (line 332)
pattern_farming_threshold == 5

\* {node.address for node in pattern.transaction_graph.nodes}
NodeAddresses(pattern) == {pattern.nodes[i] : i \in 1..Len(pattern.nodes)}

\* every address is taken to be new
_analyze_address_ages_all_new(pattern) ==
    [new_address_count |-> Len(pattern.nodes), total_address_count |-> Len(pattern.nodes),
     suspicious_new_address_ratio |-> 1000, is_suspicious |-> TRUE, confidence |-> 1000]

\* _analyze_address_ages: every address is taken to be old
_analyze_address_ages(pattern) ==
    [new_address_count |-> 0, total_address_count |-> Len(pattern.nodes),
     suspicious_new_address_ratio |-> 0, is_suspicious |-> FALSE, confidence |-> 0]

\* the four sub-signals: constants for every graph (lines 470-488)
_calculate_circular_transaction_ratio(graph) == 200
_calculate_dust_transaction_ratio(graph) == 100
_calculate_temporal_clustering(graph) == 300
_calculate_round_number_bias(graph) == 200

\* the indicators counted with a sub-signal at its threshold included
ComplexityAuthenticityAnalysisInclusive(circular_ratio, dust_ratio, temporal_clustering, round_number_bias) ==
    LET artificial_indicators ==
            (IF circular_ratio >= 500 THEN 1 ELSE 0) + (IF dust_ratio >= 300 THEN 1 ELSE 0)
            + (IF temporal_clustering >= 800 THEN 1 ELSE 0)
            + (IF round_number_bias >= 600 THEN 1 ELSE 0)
    IN  [circular_ratio |-> circular_ratio, dust_ratio |-> dust_ratio,
         temporal_clustering |-> temporal_clustering, round_number_bias |-> round_number_bias,
         is_artificially_complex |-> artificial_indicators >= 2,
         confidence |-> (artificial_indicators * 1000) \div 4]

\* lines 409-426 of _analyze_pattern_authenticity: the indicators counted
\* from the four sub-signals, and the analysis returned
ComplexityAuthenticityAnalysis(circular_ratio, dust_ratio, temporal_clustering, round_number_bias) ==
    LET artificial_indicators ==
            (IF circular_ratio > 500 THEN 1 ELSE 0) + (IF dust_ratio > 300 THEN 1 ELSE 0)
            + (IF temporal_clustering > 800 THEN 1 ELSE 0)
            + (IF round_number_bias > 600 THEN 1 ELSE 0)
    IN  [circular_ratio |-> circular_ratio, dust_ratio |-> dust_ratio,
         temporal_clustering |-> temporal_clustering, round_number_bias |-> round_number_bias,
         is_artificially_complex |-> artificial_indicators >= 2,
         confidence |-> (artificial_indicators * 1000) \div 4]

\* _analyze_pattern_authenticity
_analyze_pattern_authenticity(pattern) ==
    ComplexityAuthenticityAnalysis(
        _calculate_circular_transaction_ratio(pattern),
        _calculate_dust_transaction_ratio(pattern),
        _calculate_temporal_clustering(pattern),
        _calculate_round_number_bias(pattern))

\* _has_suspicious_timing_correlation: never
_has_suspicious_timing_correlation(timestamps) == FALSE

\* [p.detection_timestamp for p in recent_submissions]
SubmissionTimes(recent_submissions) ==
    [i \in DOMAIN recent_submissions |-> recent_submissions[i].detection_timestamp]

\* an overlap ratio of 0.5 or more counts as an overlap
_detect_coordination_inclusive(pattern, recent_submissions) ==
    LET pattern_addresses == NodeAddresses(pattern)
        overlaps(other) ==
            LET other_addresses == NodeAddresses(other)
            IN  Cardinality(pattern_addresses \cap other_addresses) * 1000
                    >= 500 * Cardinality(pattern_addresses \cup other_addresses)
        coordination_indicators ==
            (IF _has_suspicious_timing_correlation(SubmissionTimes(recent_submissions))
             THEN {"timing_correlation"} ELSE {})
            \cup (IF \E i \in 1..Len(recent_submissions) : overlaps(recent_submissions[i])
                  THEN {"address_overlap"} ELSE {})
    IN  [coordination_indicators |-> coordination_indicators,
         has_coordination_indicators |-> Cardinality(coordination_indicators) >= 1,
         confidence |-> (Cardinality(coordination_indicators) * 1000) \div 2]

\* _detect_coordination: an overlap ratio above 0.5 with one recent
\* submission is the indicator "address_overlap"; patterns have nodes, so
\* the union is never empty
_detect_coordination(pattern, recent_submissions) ==
    LET pattern_addresses == NodeAddresses(pattern)
        overlaps(other) ==
            LET other_addresses == NodeAddresses(other)
            IN  Cardinality(pattern_addresses \cap other_addresses) * 1000
                    > 500 * Cardinality(pattern_addresses \cup other_addresses)
        coordination_indicators ==
            (IF _has_suspicious_timing_correlation(SubmissionTimes(recent_submissions))
             THEN {"timing_correlation"} ELSE {})
            \cup (IF \E i \in 1..Len(recent_submissions) : overlaps(recent_submissions[i])
                  THEN {"address_overlap"} ELSE {})
    IN  [coordination_indicators |-> coordination_indicators,
         has_coordination_indicators |-> Cardinality(coordination_indicators) >= 1,
         confidence |-> (Cardinality(coordination_indicators) * 1000) \div 2]

\* _detect_pattern_farming
_detect_pattern_farming(pattern, miner_reputation, recent_submissions) ==
    Len(recent_submissions) > pattern_farming_threshold

ConfidenceKeys == {"address_age", "complexity", "coordination", "farming"}

\* the sum of the confidence values, not divided by their number
_calculate_overall_gaming_probability_sum(confidence_scores) ==
    LET score(k) == IF k \in DOMAIN confidence_scores THEN confidence_scores[k] ELSE 0
    IN  [num |-> score("address_age") + score("complexity")
                     + score("coordination") + score("farming"),
         den |-> 1]

\* _calculate_overall_gaming_probability: the mean of the confidence
\* values as the fraction num / den of thousandths, 0.0 when there is none
_calculate_overall_gaming_probability(confidence_scores) ==
    LET score(k) == IF k \in DOMAIN confidence_scores THEN confidence_scores[k] ELSE 0
    IN  IF DOMAIN confidence_scores = {}
        THEN [num |-> 0, den |-> 1]
        ELSE [num |-> score("address_age") + score("complexity")
                          + score("coordination") + score("farming"),
              den |-> Cardinality(DOMAIN confidence_scores)]

\* probability > x, x in thousandths
Exceeds(probability, x) == probability.num > x * probability.den

\* the decision that does not look at the coordination flag
_determine_recommended_action_by_probability(gaming_flags, confidence_scores) ==
    LET overall_prob == _calculate_overall_gaming_probability(confidence_scores)
    IN  IF Exceeds(overall_prob, 800) THEN "reject"
        ELSE IF Exceeds(overall_prob, 500) THEN "flag_for_review"
        ELSE "accept"

\* _determine_recommended_action
_determine_recommended_action(gaming_flags, confidence_scores) ==
    LET overall_prob == _calculate_overall_gaming_probability(confidence_scores)
    IN  IF Exceeds(overall_prob, 800) \/ "coordination_detected" \in gaming_flags
        THEN "reject"
        ELSE IF Exceeds(overall_prob, 500) THEN "flag_for_review"
        ELSE "accept"

\* GamingAnalysisResult(...) as comprehensive_gaming_analysis builds it
GamingAnalysisResult(gaming_flags, confidence_scores) ==
    [gaming_flags |-> gaming_flags, confidence_scores |-> confidence_scores,
     overall_gaming_probability |-> _calculate_overall_gaming_probability(confidence_scores),
     recommended_action |-> _determine_recommended_action(gaming_flags, confidence_scores)]

\* one entry of confidence_scores, if the analysis flagged
Scored(flagged, key, confidence) == IF flagged THEN key :> confidence ELSE << >>

\* AdvancedAntiGamingSystem.comprehensive_gaming_analysis
comprehensive_gaming_analysis(pattern, miner_reputation, recent_submissions) ==
    LET age_analysis == _analyze_address_ages(pattern)
        aged == age_analysis.suspicious_new_address_ratio > 700
        complexity_analysis == _analyze_pattern_authenticity(pattern)
        artificial == complexity_analysis.is_artificially_complex
        coordination_analysis == _detect_coordination(pattern, recent_submissions)
        coordinated == coordination_analysis.has_coordination_indicators
        farming_analysis == _detect_pattern_farming(pattern, miner_reputation, recent_submissions)
        gaming_flags ==
            (IF aged THEN {"suspicious_address_ages"} ELSE {})
            \cup (IF artificial THEN {"artificial_complexity"} ELSE {})
            \cup (IF coordinated THEN {"coordination_detected"} ELSE {})
            \cup (IF farming_analysis THEN {"pattern_farming"} ELSE {})
        confidence_scores ==
            Scored(aged, "address_age", age_analysis.confidence)
            @@ Scored(artificial, "complexity", complexity_analysis.confidence)
            @@ Scored(coordinated, "coordination", coordination_analysis.confidence)
            @@ Scored(farming_analysis, "farming", 800)
    IN  GamingAnalysisResult(gaming_flags, confidence_scores)

\* "d1", "e1"
AddrD == <<100, 49>>
AddrE == <<101, 49>>

\* the graphs submitted for analysis: three of one structure (one of them
\* over addresses of its own) and a chain of two edges
GamingPatterns ==
    { [nodes |-> <<AddrA, AddrC>>, edges |-> <<Edge(AddrA, AddrC, Dec(1, 0), 5)>>],
      [nodes |-> <<AddrC, AddrA>>, edges |-> <<Edge(AddrC, AddrA, Dec(2, 0), 6)>>],
      [nodes |-> <<AddrD, AddrE>>, edges |-> <<Edge(AddrD, AddrE, Dec(1, 0), 7)>>],
      [nodes |-> <<AddrA, AddrC, AddrD>>,
       edges |-> <<Edge(AddrA, AddrC, Dec(1, 0), 5), Edge(AddrC, AddrD, Dec(1, 0), 6)>>] }

RecentWindows == UNION {[1..n -> GamingPatterns] : n \in 0..MaxRecent}

GamingArgs ==
    {[kind |-> "gaming", pattern |-> p, recent_submissions |-> w] :
        p \in GamingPatterns, w \in RecentWindows}

FlagNames == {"suspicious_address_ages", "artificial_complexity",
              "coordination_detected", "pattern_farming"}

ConfidenceValues == {0, 500, 800, 1000}

DecisionArgs ==
    {[kind |-> "decision", gaming_flags |-> f, confidence_scores |-> c] :
        f \in SUBSET FlagNames,
        c \in UNION {[K -> ConfidenceValues] : K \in SUBSET ConfidenceKeys}}

\* sub-signal values at, just above and away from the four thresholds
SignalValues == {0, 300, 301, 500, 501, 600, 601, 800, 801, 1000}

\* the four sub-signals as an implementation of the helpers may return
\* them, next to the constants the helpers return now
AuthenticityArgs ==
    {[kind |-> "authenticity", circular_ratio |-> c, dust_ratio |-> d,
      temporal_clustering |-> t, round_number_bias |-> r] :
        c \in SignalValues, d \in SignalValues, t \in SignalValues, r \in SignalValues}

CallAuthenticity ==
    /\ args.kind = "authenticity" /\ ret.kind = None
    /\ ret' = [kind |-> "authenticity",
               result |-> ComplexityAuthenticityAnalysis(
                              args.circular_ratio, args.dust_ratio,
                              args.temporal_clustering, args.round_number_bias)]
    /\ UNCHANGED <<args, rateVars, dbVars, travVars, subVars, axonVars, regVars, dedupVars, repVars>>

\* submissions with their detection time, over one, two and three
\* addresses: the overlap ratios between them are 0, 1/3, 1/2, 2/3 and 1
CoordinationPatterns ==
    { [nodes |-> <<AddrA>>, edges |-> <<Edge(AddrA, AddrA, Dec(1, 0), 5)>>,
       detection_timestamp |-> 10],
      [nodes |-> <<AddrA, AddrC>>, edges |-> <<Edge(AddrA, AddrC, Dec(1, 0), 5)>>,
       detection_timestamp |-> 10],
      [nodes |-> <<AddrA, AddrC, AddrD>>,
       edges |-> <<Edge(AddrA, AddrC, Dec(1, 0), 5), Edge(AddrC, AddrD, Dec(1, 0), 6)>>,
       detection_timestamp |-> 11],
      [nodes |-> <<AddrD, AddrE>>, edges |-> <<Edge(AddrD, AddrE, Dec(1, 0), 7)>>,
       detection_timestamp |-> 4000] }

CoordinationArgs ==
    {[kind |-> "coordination", pattern |-> p, recent_submissions |-> w] :
        p \in CoordinationPatterns,
        w \in UNION {[1..n -> CoordinationPatterns] : n \in 0..MaxCoordRecent}}

CallCoordination ==
    /\ args.kind = "coordination" /\ ret.kind = None
    /\ ret' = [kind |-> "coordination",
               result |-> _detect_coordination(args.pattern, args.recent_submissions)]
    /\ UNCHANGED <<args, rateVars, dbVars, travVars, subVars, axonVars, regVars, dedupVars, repVars>>

CallGamingAnalysis ==
    /\ args.kind = "gaming" /\ ret.kind = None
    /\ ret' = [kind |-> "gaming",
               result |-> comprehensive_gaming_analysis(args.pattern, rep, args.recent_submissions)]
    /\ UNCHANGED <<args, rateVars, dbVars, travVars, subVars, axonVars, regVars, dedupVars, repVars>>

CallDecision ==
    /\ args.kind = "decision" /\ ret.kind = None
    /\ ret' = [kind |-> "decision",
               result |-> GamingAnalysisResult(args.gaming_flags, args.confidence_scores)]
    /\ UNCHANGED <<args, rateVars, dbVars, travVars, subVars, axonVars, regVars, dedupVars, repVars>>

NextGaming == CallGamingAnalysis \/ CallDecision \/ CallAuthenticity \/ CallCoordination

\* ------------------------------------------------------ graph analysis
\* "x", "y", "z"
GraphAddresses == {<<120>>, <<121>>, <<122>>}

\* the node lists: some of the addresses, each once, in any order
NodeLists ==
    {nodes \in UNION {[1..n -> GraphAddresses] : n \in 0..Cardinality(GraphAddresses)} :
        \A i, j \in 1..Len(nodes) : nodes[i] = nodes[j] => i = j}

GraphEdges == {Edge(f, t, Dec(1, 0), 5) : f \in GraphAddresses, t \in GraphAddresses}

GraphArgs ==
    {[kind |-> "graph", nodes |-> nodes, edges |-> edges] :
        nodes \in NodeLists,
        edges \in UNION {[1..n -> GraphEdges] : n \in 0..MaxGraphEdges}}

CallCountCycles ==
    /\ args.kind = "graph" /\ ret.kind = None
    /\ ret' = [kind |-> "cycles", value |-> _count_cycles(args)]
    /\ UNCHANGED <<args, rateVars, dbVars, travVars, subVars, axonVars, regVars, dedupVars, repVars>>

CallDepth ==
    /\ args.kind = "graph" /\ ret.kind = None
    /\ ret' = [kind |-> "depth", value |-> _calculate_graph_depth(args)]
    /\ UNCHANGED <<args, rateVars, dbVars, travVars, subVars, axonVars, regVars, dedupVars, repVars>>

CallComplexity ==
    /\ args.kind = "graph" /\ ret.kind = None
    /\ ret' = [kind |-> "complexity", outcome |-> calculate_pattern_complexity(args)]
    /\ UNCHANGED <<args, rateVars, dbVars, travVars, subVars, axonVars, regVars, dedupVars, repVars>>

CallSignature ==
    /\ args.kind = "graph" /\ ret.kind = None
    /\ ret' = [kind |-> "signature", outcome |-> Value(_calculate_graph_signature(args))]
    /\ UNCHANGED <<args, rateVars, dbVars, travVars, subVars, axonVars, regVars, dedupVars, repVars>>

NextGraph == CallCountCycles \/ CallDepth \/ CallComplexity \/ CallSignature

\* ---- _calculate_graph_depth and _count_cycles step by step: one frame
\* of travStack per call of _dfs_max_depth or _dfs_cycle_detection in
\* progress. A frame holds the address, the set passed in (visited or
\* path, a copy of the caller's), the outgoing edges still to follow and
\* the local max_depth or cycles.

TraversalAddresses == {<<120>>, <<121>>}

TraversalEdges == {Edge(f, t, Dec(1, 0), 5) : f \in TraversalAddresses, t \in TraversalAddresses}

\* graphs over two addresses: the node list holds none, one or both of
\* them, the edge list any edges, repeated or not
TraversalArgs ==
    {[kind |-> k, nodes |-> nodes, edges |-> edges] :
        k \in {"depth", "cycles"},
        nodes \in {n \in NodeLists : \A i \in DOMAIN n : n[i] \in TraversalAddresses},
        edges \in UNION {[1..n -> TraversalEdges] : n \in 0..MaxTraversalEdges}}

\* the frame of a call just made
CallFrame(address, seen) ==
    [address |-> address, seen |-> seen, entered |-> FALSE, edges |-> << >>, acc |-> 0]

\* no membership test at all: every address counts as new
SeenBeforeNever(address, seen) == FALSE

\* 'if address in visited', 'if address in path', 'if address in
\* global_visited'
SeenBefore(address, seen) == address \in seen

\* the tests at the head of the call: the values returned at once, none
\* when the call goes on (lines 291-292 and 322-326)
ReturnedAtOnce(kind, frame, global_visited) ==
    IF kind = "depth"
    THEN IF SeenBefore(frame.address, frame.seen) THEN {0} ELSE {}
    ELSE IF SeenBefore(frame.address, frame.seen) THEN {1}
         ELSE IF SeenBefore(frame.address, global_visited) THEN {0}
         ELSE {}

\* the caller takes the value v returned to it: 'max(max_depth, 1 +
\* depth)' or 'cycles += ...' in a frame, 'max(max_depth, depth)' or
\* 'cycles += ...' in the outer loop
TraversalReturn(v) ==
    LET callers == SubSeq(travStack, 1, Len(travStack) - 1)
        n == Len(callers)
    IN  IF n = 0
        THEN /\ travStack' = << >>
             /\ travAcc' = IF args.kind = "depth" THEN Max(travAcc, v) ELSE travAcc + v
        ELSE /\ travStack' = [callers EXCEPT
                                 ![n].acc = IF args.kind = "depth" THEN Max(@, 1 + v) ELSE @ + v]
             /\ UNCHANGED travAcc

\* the loop over graph.nodes (lines 282-283 and 313-315)
TraversalLoop ==
    /\ args.kind \in {"depth", "cycles"} /\ ret.kind = None
    /\ travStack = << >>
    /\ travIndex <= Len(args.nodes)
    /\ travIndex' = travIndex + 1
    /\ travStack' = IF args.kind = "cycles" /\ SeenBefore(args.nodes[travIndex], travVisited)
                    THEN << >>
                    ELSE <<CallFrame(args.nodes[travIndex], {})>>
    /\ UNCHANGED <<travAcc, travVisited>>
    /\ UNCHANGED <<regVars, dedupVars, repVars, fnVars, rateVars, dbVars, subVars, axonVars>>

\* the head of a call: it returns at once, or adds the address to the
\* sets and takes the outgoing edges (lines 291-298 and 322-332)
TraversalEnter ==
    LET n == Len(travStack)
        frame == travStack[n]
        at_once == ReturnedAtOnce(args.kind, frame, travVisited)
    IN  /\ args.kind \in {"depth", "cycles"} /\ ret.kind = None
        /\ n > 0
        /\ ~frame.entered
        /\ IF at_once = {}
           THEN /\ travStack' = [travStack EXCEPT
                                    ![n].entered = TRUE,
                                    ![n].seen = @ \cup {frame.address},
                                    ![n].edges = get_edges_from_address(args, frame.address)]
                /\ travVisited' = IF args.kind = "cycles"
                                  THEN travVisited \cup {frame.address}
                                  ELSE travVisited
                /\ UNCHANGED travAcc
           ELSE /\ \E v \in at_once : TraversalReturn(v)
                /\ UNCHANGED travVisited
        /\ UNCHANGED travIndex
        /\ UNCHANGED <<regVars, dedupVars, repVars, fnVars, rateVars, dbVars, subVars, axonVars>>

\* the recursive call for the next outgoing edge, with a copy of the set
\* (lines 300-301 and 334-335); the stack of calls has a limit
TraversalFollow ==
    LET n == Len(travStack)
        frame == travStack[n]
    IN  /\ args.kind \in {"depth", "cycles"} /\ ret.kind = None
        /\ n > 0 /\ n < MaxStack
        /\ frame.entered
        /\ frame.edges # << >>
        /\ travStack' = Append([travStack EXCEPT ![n].edges = Tail(@)],
                               CallFrame(Head(frame.edges).to_address, frame.seen))
        /\ UNCHANGED <<travIndex, travAcc, travVisited>>
        /\ UNCHANGED <<regVars, dedupVars, repVars, fnVars, rateVars, dbVars, subVars, axonVars>>

\* the return after the last outgoing edge (lines 304 and 337)
TraversalLeave ==
    LET n == Len(travStack)
        frame == travStack[n]
    IN  /\ args.kind \in {"depth", "cycles"} /\ ret.kind = None
        /\ n > 0
        /\ frame.entered
        /\ frame.edges = << >>
        /\ TraversalReturn(frame.acc)
        /\ UNCHANGED <<travIndex, travVisited>>
        /\ UNCHANGED <<regVars, dedupVars, repVars, fnVars, rateVars, dbVars, subVars, axonVars>>

\* the return of _calculate_graph_depth or _count_cycles (lines 286, 317)
TraversalFinish ==
    /\ args.kind \in {"depth", "cycles"} /\ ret.kind = None
    /\ travStack = << >>
    /\ travIndex > Len(args.nodes)
    /\ ret' = [kind |-> "returned", value |-> travAcc]
    /\ UNCHANGED <<args, regVars, dedupVars, repVars, rateVars, dbVars, subVars, axonVars, travVars>>

NextTraversal ==
    \/ TraversalLoop
    \/ TraversalEnter
    \/ TraversalFollow
    \/ TraversalLeave
    \/ TraversalFinish

\* ---------------------------------------------------------- submission
\* DetectedPattern(transaction_graph, blockchain, asset_symbol,
\* detection_timestamp): __post_init__ raises ValueError for no nodes, no
\* edges, no blockchain or no asset symbol, and no object comes to exist.
\* The fields of transaction_graph are kept in the pattern record itself.
DetectedPatternUnvalidated(transaction_graph, blockchain, asset_symbol, detection_timestamp) ==
    Value([nodes |-> transaction_graph.nodes, edges |-> transaction_graph.edges,
           blockchain |-> blockchain, asset_symbol |-> asset_symbol,
           detection_timestamp |-> detection_timestamp])

DetectedPattern(transaction_graph, blockchain, asset_symbol, detection_timestamp) ==
    IF Len(transaction_graph.nodes) = 0 THEN Raised("ValueError")
    ELSE IF Len(transaction_graph.edges) = 0 THEN Raised("ValueError")
    ELSE IF Len(blockchain) = 0 THEN Raised("ValueError")
    ELSE IF Len(asset_symbol) = 0 THEN Raised("ValueError")
    ELSE Value([nodes |-> transaction_graph.nodes, edges |-> transaction_graph.edges,
                blockchain |-> blockchain, asset_symbol |-> asset_symbol,
                detection_timestamp |-> detection_timestamp])

\* "eth"
Eth == <<101, 116, 104>>

\* what miners send: graphs with and without nodes and edges, with and
\* without a blockchain and an asset symbol
Submissions ==
    {[transaction_graph |-> [nodes |-> nodes, edges |-> edges],
      blockchain |-> b, asset_symbol |-> a, detection_timestamp |-> 5] :
        nodes \in {<< >>, <<AddrA, AddrC>>},
        edges \in {<< >>, <<Edge(AddrA, AddrC, Dec(1, 0), 5)>>, <<Edge(AddrC, AddrA, Dec(2, 0), 5)>>},
        b \in {<< >>, Eth}, a \in {<< >>, Eth}}

\* a submission arrives and the pattern object is built from it
ConstructPattern ==
    /\ \E s \in Submissions :
          constructed' = [kind |-> "constructed", submission |-> s,
                          outcome |-> DetectedPattern(s.transaction_graph, s.blockchain,
                                                      s.asset_symbol, s.detection_timestamp)]
    /\ UNCHANGED <<regVars, dedupVars, repVars, fnVars, rateVars, dbVars, travVars, axonVars>>

\* the analyses take a DetectedPattern: they run on an object that exists
Constructed == constructed.kind = "constructed" /\ constructed.outcome.raised = None

CheckConstructed ==
    /\ Constructed
    /\ is_duplicate_pattern("t1", constructed.outcome.value)

RegisterConstructed ==
    /\ Constructed
    /\ \E m \in Miners : register_pattern_discovery("t1", constructed.outcome.value, m)

NextSubmission == ConstructPattern \/ CheckConstructed \/ RegisterConstructed

\* ------------------------------------------------------ miner database
Validators == {"v1", "v2"}

Importances == {0, 5}

\* DataManager.add_pattern: the row gets the next id
add_pattern(importance) ==
    /\ Len(patterns) < MaxPatterns
    /\ patterns' = Append(patterns, [id |-> Len(patterns) + 1, importance |-> importance])
    /\ UNCHANGED <<acknowledged_patterns, ackPc, ackLocal, ackReturned, ackCalls, lastGet>>
    /\ UNCHANGED <<regVars, dedupVars, repVars, fnVars, rateVars, subVars, axonVars, travVars>>

AddPattern == \E importance \in Importances : add_pattern(importance)

\* the subquery with no filter on the validator
AcknowledgedByAnyone(acks, validator_hotkey) ==
    {acks[i].pattern_id : i \in 1..Len(acks)}

\* the subquery of get_unacknowledged_patterns: the pattern ids
\* acknowledged by this validator
AcknowledgedBy(acks, validator_hotkey) ==
    {acks[i].pattern_id : i \in {j \in 1..Len(acks) : acks[j].validator_hotkey = validator_hotkey}}

\* the main query: the rows not acknowledged by the validator, ordered by
\* id (ids are unique, so the second key, importance, orders nothing),
\* limit 1
UnacknowledgedQuery(pats, acks, validator_hotkey) ==
    LET rows == SelectSeq(pats, LAMBDA row : row.id \notin AcknowledgedBy(acks, validator_hotkey))
    IN  IF rows = << >> THEN << >> ELSE <<Head(rows)>>

\* query.single(): Query.single is no part of this repository; it returns
\* the one row of the query or raises
SingleOutcomes(rows) ==
    {Raised("AttributeError")} \cup (IF rows = << >> THEN {} ELSE {Value(rows[1])})

\* DataManager.get_unacknowledged_patterns, one whole call
get_unacknowledged_patterns(validator_hotkey) ==
    /\ \E outcome \in SingleOutcomes(UnacknowledgedQuery(patterns, acknowledged_patterns,
                                                         validator_hotkey)) :
          lastGet' = [kind |-> "got", turn |-> 1 - lastGet.turn,
                      validator_hotkey |-> validator_hotkey, outcome |-> outcome]
    /\ UNCHANGED <<patterns, acknowledged_patterns, ackPc, ackLocal, ackReturned, ackCalls>>
    /\ UNCHANGED <<regVars, dedupVars, repVars, fnVars, rateVars, subVars, axonVars, travVars>>

GetUnacknowledged == \E v \in Validators : get_unacknowledged_patterns(v)

AckReturn(pattern_id, validator_hotkey, result) ==
    [pattern_id |-> pattern_id, validator_hotkey |-> validator_hotkey, result |-> result]

\* acknowledge_pattern, lines 117-119: the pattern is looked up
AckBegin(t, pattern_id, validator_hotkey) ==
    /\ ackPc[t] = "idle"
    /\ ackCalls < MaxAcks
    /\ ackCalls' = ackCalls + 1
    /\ IF \E i \in 1..Len(patterns) : patterns[i].id = pattern_id
       THEN /\ ackPc' = [ackPc EXCEPT ![t] = "check"]
            /\ ackLocal' = [ackLocal EXCEPT ![t] =
                               [kind |-> "ack", pattern_id |-> pattern_id,
                                validator_hotkey |-> validator_hotkey]]
            /\ UNCHANGED ackReturned
       ELSE /\ ackReturned' = ackReturned \cup {AckReturn(pattern_id, validator_hotkey, FALSE)}
            /\ UNCHANGED <<ackPc, ackLocal>>
    /\ UNCHANGED <<patterns, acknowledged_patterns, lastGet>>
    /\ UNCHANGED <<regVars, dedupVars, repVars, fnVars, rateVars, subVars, axonVars, travVars>>

\* lines 122-131: the acknowledgment of this validator is looked up
AckCheck(t) ==
    /\ ackPc[t] = "check"
    /\ IF \E i \in 1..Len(acknowledged_patterns) :
              /\ acknowledged_patterns[i].pattern_id = ackLocal[t].pattern_id
              /\ acknowledged_patterns[i].validator_hotkey = ackLocal[t].validator_hotkey
       THEN /\ ackReturned' = ackReturned \cup
                  {AckReturn(ackLocal[t].pattern_id, ackLocal[t].validator_hotkey, TRUE)}
            /\ ackPc' = [ackPc EXCEPT ![t] = "idle"]
            /\ ackLocal' = [ackLocal EXCEPT ![t] = NoResult]
       ELSE /\ ackPc' = [ackPc EXCEPT ![t] = "insert"]
            /\ UNCHANGED <<ackReturned, ackLocal>>
    /\ UNCHANGED <<patterns, acknowledged_patterns, ackCalls, lastGet>>
    /\ UNCHANGED <<regVars, dedupVars, repVars, fnVars, rateVars, subVars, axonVars, travVars>>

\* lines 134-142: the row is added and committed; the table has no
\* unique constraint on (pattern_id, validator_hotkey)
AckInsert(t) ==
    /\ ackPc[t] = "insert"
    /\ acknowledged_patterns' = Append(acknowledged_patterns,
           [pattern_id |-> ackLocal[t].pattern_id,
            validator_hotkey |-> ackLocal[t].validator_hotkey])
    /\ ackReturned' = ackReturned \cup
           {AckReturn(ackLocal[t].pattern_id, ackLocal[t].validator_hotkey, TRUE)}
    /\ ackPc' = [ackPc EXCEPT ![t] = "idle"]
    /\ ackLocal' = [ackLocal EXCEPT ![t] = NoResult]
    /\ UNCHANGED <<patterns, ackCalls, lastGet>>
    /\ UNCHANGED <<regVars, dedupVars, repVars, fnVars, rateVars, subVars, axonVars, travVars>>

AckBeginAny == \E t \in Threads, p \in 1..MaxPatterns, v \in Validators : AckBegin(t, p, v)
AckCheckAny == \E t \in Threads : AckCheck(t)
AckInsertAny == \E t \in Threads : AckInsert(t)

NextMinerDb == AddPattern \/ GetUnacknowledged \/ AckBeginAny \/ AckCheckAny \/ AckInsertAny

\* ------------------------------------------------ on-chain verification
\* the values of the enum BlockchainNetwork (lines 29-50)
KnownNetworks ==
    {"bitcoin", "ethereum", "bsc", "polygon", "avalanche", "arbitrum", "optimism",
     "solana", "cardano", "polkadot", "cosmos", "near", "fantom", "cronos", "tron",
     "litecoin", "bitcoin_cash", "dogecoin", "monero", "zcash"}

\* BlockchainNetwork(value): the enum lookup raises for any other value
BlockchainNetwork(value) ==
    IF value \in KnownNetworks THEN Value(value) ELSE Raised("ValueError")

\* int(time.time()) in blockchain_integration.py: the module imports os,
\* abc, dataclasses, decimal, enum and typing (lines 18-26) but not time,
\* so the name is undefined where lines 372 and 384 evaluate it
VerificationTimestamp(now) == Raised("NameError")

\* the result built at lines 369-378
NoInterfaceResult(pattern, blockchain, now) ==
    [pattern_id |-> "unknown", is_valid |-> FALSE, verification_timestamp |-> now,
     addresses_exist |-> FALSE, transactions_verified |-> 0,
     total_transactions |-> Len(pattern.edges), verification_confidence |-> 0,
     verification_errors |-> 1]

\* the result of lines 381-435: lookups[i] is what get_transaction and
\* _verify_transaction_details give for the i-th edge, existence[a] what
\* verify_address_exists gives for an address; verification_errors counts
\* the messages appended
VerifiedResult(pattern, lookups, existence, now) ==
    LET edges == 1..Len(pattern.edges)
        verified == Cardinality({i \in edges : lookups[i] = "matches"})
        failed == Cardinality({i \in edges : lookups[i] # "matches"})
        addresses == NodeAddresses(pattern)
    IN  [pattern_id |-> "unknown",
         is_valid |-> failed = 0,
         verification_timestamp |-> now,
         addresses_exist |-> \A a \in addresses : existence[a] # "absent",
         transactions_verified |-> verified,
         total_transactions |-> Len(pattern.edges),
         verification_confidence |-> IF Len(pattern.edges) > 0
                                     THEN (verified * 1000) \div Len(pattern.edges)
                                     ELSE 0,
         verification_errors |-> failed
             + Cardinality({a \in addresses : existence[a] # "exists"})]

\* BlockchainManager.verify_pattern_on_chain
verify_pattern_on_chain(interfaces, pattern, lookups, existence, now) ==
    LET blockchain == BlockchainNetwork(pattern.blockchain)
        verification_timestamp == VerificationTimestamp(now)
    IN  IF blockchain.raised # None THEN blockchain
        ELSE IF blockchain.value \notin interfaces
        THEN IF verification_timestamp.raised # None THEN verification_timestamp
             ELSE Value(NoInterfaceResult(pattern, blockchain.value,
                                          verification_timestamp.value))
        ELSE IF verification_timestamp.raised # None THEN verification_timestamp
             ELSE Value(VerifiedResult(pattern, lookups, existence,
                                       verification_timestamp.value))

\* BlockchainManager.is_blockchain_supported: a name that is no network
\* is not supported
is_blockchain_supported(interfaces, blockchain) ==
    LET blockchain_enum == BlockchainNetwork(blockchain)
    IN  IF blockchain_enum.raised # None THEN FALSE
        ELSE blockchain_enum.value \in interfaces

\* PatternBlockchainVerifier._calculate_overall_confidence; the coverage
\* dict has the one entry of the blockchain of the pattern
_calculate_overall_confidence(basic_verification, blockchain_coverage) ==
    IF ~basic_verification.is_valid THEN 0
    ELSE LET base_confidence == basic_verification.verification_confidence
             coverage_penalty == IF blockchain_coverage THEN 0 ELSE 200
         IN  Max(0, base_confidence - coverage_penalty)

\* PatternBlockchainVerifier.comprehensive_pattern_verification: what
\* verify_pattern_on_chain raises passes through it
comprehensive_pattern_verification(interfaces, pattern, lookups, existence, now) ==
    LET basic_verification ==
            verify_pattern_on_chain(interfaces, pattern, lookups, existence, now)
        blockchain_coverage == is_blockchain_supported(interfaces, pattern.blockchain)
    IN  IF basic_verification.raised # None THEN basic_verification
        ELSE Value([basic_verification |-> basic_verification.value,
                    blockchain_coverage |-> blockchain_coverage,
                    overall_confidence |->
                        _calculate_overall_confidence(basic_verification.value,
                                                      blockchain_coverage)])

\* ComprehensiveVerificationResult.is_fully_verified
is_fully_verified(self) ==
    self.basic_verification.is_valid /\ self.overall_confidence > 800

\* the interfaces BlockchainManager.__init__ can hold: create_interface
\* builds one for ethereum, bitcoin, bsc and polygon only
InterfaceSets == {{}, {"ethereum"}, {"ethereum", "bitcoin"}}

LookupOutcomes == {"matches", "mismatch", "missing", "raises"}

ExistenceOutcomes == {"exists", "absent", "raises"}

\* patterns of one or two edges between aB and c1 on a configured network,
\* on a known network of no interface, on a name that is no network
VerifyArgs ==
    {[kind |-> "verify", interfaces |-> ifs,
      pattern |-> [nodes |-> <<AddrA, AddrC>>,
                   edges |-> [i \in 1..Len(lk) |-> Edge(AddrA, AddrC, Dec(1, 0), 5)],
                   blockchain |-> b],
      lookups |-> lk, existence |-> ex] :
        ifs \in InterfaceSets,
        b \in {"ethereum", "solana", "dogechain"},
        lk \in UNION {[1..n -> LookupOutcomes] : n \in 1..MaxLookups},
        ex \in [{AddrA, AddrC} -> ExistenceOutcomes]}

CallVerify ==
    /\ args.kind = "verify" /\ ret.kind = None
    /\ ret' = [kind |-> "verify",
               outcome |-> verify_pattern_on_chain(args.interfaces, args.pattern,
                                                    args.lookups, args.existence, clock),
               comprehensive |->
                   comprehensive_pattern_verification(args.interfaces, args.pattern,
                                                      args.lookups, args.existence, clock)]
    /\ UNCHANGED <<args, rateVars, dbVars, travVars, subVars, axonVars, regVars, dedupVars, repVars>>

NextVerify == CallVerify

\* ------------------------------------------------------ pure functions
\* get_final_score on any five component scores
ScoreArgs ==
    {[kind |-> "score", confidence_score |-> a, complexity_score |-> b, recency_score |-> c,
      volume_significance |-> d, uniqueness_score |-> e] :
        a \in ScoreValues, b \in ScoreValues, c \in ScoreValues,
        d \in ScoreValues, e \in ScoreValues}


CallFinalScore ==
    /\ args.kind = "score" /\ ret.kind = None
    /\ ret' = [kind |-> "score", value |-> get_final_score(args)]
    /\ UNCHANGED <<args, rateVars, dbVars, travVars, subVars, axonVars, regVars, dedupVars, repVars>>

NextScore == CallFinalScore

\* similarity_score on any two signatures, both ways round
Signatures ==
    [node_count : 0..MaxCount, edge_count : 0..MaxCount, max_degree : 0..MaxCount]

SimilarityArgs == {[kind |-> "similarity", a |-> a, b |-> b] : a \in Signatures, b \in Signatures}


CallSimilarity ==
    /\ args.kind = "similarity" /\ ret.kind = None
    /\ ret' = [kind |-> "similarity", ab |-> similarity_score(args.a, args.b),
               ba |-> similarity_score(args.b, args.a)]
    /\ UNCHANGED <<args, rateVars, dbVars, travVars, subVars, axonVars, regVars, dedupVars, repVars>>

NextSimilarity == CallSimilarity

\* the two digests of a pattern and of a variant of it
EdgeUniverse ==
    { Edge(AddrA, AddrC, Dec(1, 0), 5),
      Edge(AddrAalt, AddrC, Dec(1, 0), 5),
      Edge(AddrAalt, AddrC, Dec(10000001, 7), 5),
      Edge(AddrA, AddrC, Dec(1, 0), 6),
      Edge(AddrC, AddrA, Dec(1, 0), 5),
      Edge(AddrA, AddrC, Dec(1000001, 6), 5) }

EdgeLists == UNION {[1..n -> EdgeUniverse] : n \in 1..MaxEdges}

Perms(n) == {f \in [1..n -> 1..n] : \A i, j \in 1..n : f[i] = f[j] => i = j}

\* a pattern with at most one edge replaced, in any order
Variants(P) ==
    LET replaced == {P} \cup {[P EXCEPT ![i] = e] : i \in 1..Len(P), e \in EdgeUniverse}
    IN  {[k \in 1..Len(P) |-> R[f[k]]] : R \in replaced, f \in Perms(Len(P))}

HashArgs == UNION {{[kind |-> "hash", p |-> P, q |-> Q] : Q \in Variants(P)} : P \in EdgeLists}


CallHashes ==
    /\ args.kind = "hash" /\ ret.kind = None
    /\ ret' = [kind |-> "hash",
               exact_p |-> _calculate_pattern_hash(args.p),
               exact_q |-> _calculate_pattern_hash(args.q),
               canonical_input_p |-> CanonicalHashInput(args.p),
               canonical_input_q |-> CanonicalHashInput(args.q),
               canonical_p |-> _calculate_canonical_pattern_hash(args.p),
               canonical_q |-> _calculate_canonical_pattern_hash(args.q)]
    /\ UNCHANGED <<args, rateVars, dbVars, travVars, subVars, axonVars, regVars, dedupVars, repVars>>

NextHash == CallHashes

\* ---------------------------------------------------------- miner axon
\* the frames the interpreter allows a chain of nested calls
RecursionLimit == 3

Hotkeys == {"v1", "v2", "stranger"}

\* synapse.dendrite: absent, or with a hotkey that may be None
Dendrites ==
    {[kind |-> None]} \cup {[kind |-> "dendrite", hotkey |-> h] : h \in Hotkeys \cup {None}}

\* self.metagraph: v1 and v2 are registered, each with or without a
\* validator permit
Metagraphs ==
    {[hotkeys |-> <<"v1", "v2">>, validator_permit |-> permit] :
        permit \in [1..2 -> BOOLEAN]}

\* self.config.blacklist
BlacklistConfigs == [allow_non_registered : BOOLEAN, force_validator_permit : BOOLEAN]

\* list.index(x): the first position of x, ValueError when x is not in
\* the list
ListIndex(list, x) ==
    IF \E i \in 1..Len(list) : list[i] = x
    THEN Value(CHOOSE i \in 1..Len(list) :
                   list[i] = x /\ \A j \in 1..(i - 1) : list[j] # x)
    ELSE Raised("ValueError")

\* Miner._blacklist (lines 64-94); the index of the hotkey is taken
\* before the test whether the hotkey is registered
_blacklist(synapse, metagraph, config) ==
    IF synapse.dendrite.kind = None \/ synapse.dendrite.hotkey = None
    THEN Value(<<TRUE, "Missing dendrite or hotkey">>)
    ELSE LET uid == ListIndex(metagraph.hotkeys, synapse.dendrite.hotkey)
         IN  IF uid.raised # None THEN uid
             ELSE IF /\ ~config.allow_non_registered
                     /\ ~\E i \in 1..Len(metagraph.hotkeys) :
                            metagraph.hotkeys[i] = synapse.dendrite.hotkey
             THEN Value(<<TRUE, "Unrecognized hotkey">>)
             ELSE IF config.force_validator_permit /\ ~metagraph.validator_permit[uid.value]
             THEN Value(<<TRUE, "Non-validator hotkey">>)
             ELSE Value(<<FALSE, "Hotkey recognized!">>)

\* the requests the axon hands to the blacklist functions attached in
\* Miner.__init__ (lines 34-44): blacklist_pattern_query for PatternQuery,
\* _blacklist for PatternQueryAck
AxonArgs ==
    {[kind |-> k, synapse |-> [dendrite |-> d], metagraph |-> m, config |-> c] :
        k \in {"PatternQuery", "PatternQueryAck"}, d \in Dendrites,
        m \in Metagraphs, c \in BlacklistConfigs}

\* Miner.blacklist_pattern_query, line 59: the method awaits itself with
\* the same synapse, one more frame each time
BlacklistPatternQueryEnter ==
    /\ args.kind = "PatternQuery" /\ ret.kind = None
    /\ blacklistFrames < RecursionLimit
    /\ blacklistFrames' = blacklistFrames + 1
    /\ UNCHANGED <<fnVars, rateVars, dbVars, travVars, subVars, regVars, dedupVars, repVars>>

\* no frame is left: the innermost call raises RecursionError, which
\* passes through every frame to the axon
BlacklistPatternQueryOverflow ==
    /\ args.kind = "PatternQuery" /\ ret.kind = None
    /\ blacklistFrames = RecursionLimit
    /\ ret' = [kind |-> "blacklist", outcome |-> Raised("RecursionError")]
    /\ blacklistFrames' = 0
    /\ UNCHANGED <<args, rateVars, dbVars, travVars, subVars, regVars, dedupVars, repVars>>

\* the blacklist check of a PatternQueryAck request: _blacklist itself
BlacklistPatternQueryAck ==
    /\ args.kind = "PatternQueryAck" /\ ret.kind = None
    /\ ret' = [kind |-> "blacklist",
               outcome |-> _blacklist(args.synapse, args.metagraph, args.config)]
    /\ UNCHANGED <<args, rateVars, dbVars, travVars, subVars, axonVars, regVars, dedupVars, repVars>>

NextAxon ==
    BlacklistPatternQueryEnter \/ BlacklistPatternQueryOverflow \/ BlacklistPatternQueryAck

\* ======================================================== specifications
\* the state after construction of the engine, the registry and a
\* reputation among reps, with a call of a pure function among calls pending
Init(reps, calls, limits) ==
    /\ rep \in reps
    /\ updPc = [t \in Threads |-> "idle"]
    /\ updLocal = [t \in Threads |-> NoResult]
    /\ updDone = 0
    /\ updVerified = 0
    /\ updLast = NoCall
    /\ args \in calls
    /\ ret = NoCall
    /\ stored_pattern_hashes = << >>
    /\ graph_signatures = << >>
    /\ dupPc = [t \in Threads |-> "idle"]
    /\ dupLocal = [t \in Threads |-> NoResult]
    /\ dupResult = [t \in Threads |-> NoResult]
    /\ dupLog = << >>
    /\ clock = 0
    /\ discovery_registry = << >>
    /\ regPc = [t \in Threads |-> "idle"]
    /\ regLocal = [t \in Threads |-> NoResult]
    /\ regResult = [t \in Threads |-> NoResult]
    /\ regCalled = {}
    /\ regFirsts = << >>
    /\ regCalls = 0
    /\ submission_rate_limits \in limits
    /\ rateLog = [m \in Miners |-> AcceptedAt(TrackedSubmissions(submission_rate_limits, m))]
    /\ ratePc = [t \in Threads |-> "idle"]
    /\ rateLocal = [t \in Threads |-> NoResult]
    /\ patterns = << >>
    /\ acknowledged_patterns = << >>
    /\ ackPc = [t \in Threads |-> "idle"]
    /\ ackLocal = [t \in Threads |-> NoResult]
    /\ ackReturned = {}
    /\ ackCalls = 0
    /\ lastGet = [kind |-> None, turn |-> 0]
    /\ constructed = NoCall
    /\ travStack = << >>
    /\ travIndex = 1
    /\ travAcc = 0
    /\ travVisited = {}
    /\ blacklistFrames = 0

SpecRegistry == Init({DefaultReputation}, {NoCall}, NoSubmissions) /\ [][NextRegistry]_vars
SpecRegistryConc == Init({DefaultReputation}, {NoCall}, NoSubmissions) /\ [][NextRegistryConc]_vars
SpecDedup == Init({DefaultReputation}, {NoCall}, NoSubmissions) /\ [][NextDedup]_vars
SpecDedupConc == Init({DefaultReputation}, {NoCall}, NoSubmissions) /\ [][NextDedupConc]_vars
SpecReputation == Init(ConstructedReputations, {NoCall}, NoSubmissions) /\ [][NextReputation]_vars
SpecReputationConc == Init({DefaultReputation}, {NoCall}, NoSubmissions) /\ [][NextReputationConc]_vars
SpecReputationSeasoned ==
    Init(ConstructedReputations \cup SeasonedReputations, {NoCall}, NoSubmissions)
        /\ [][NextReputation]_vars
SpecScore == Init({DefaultReputation}, ScoreArgs, NoSubmissions) /\ [][NextScore]_vars
SpecReportedScore == Init(ConstructedReputations, ReportArgs, NoSubmissions) /\ [][NextReportedScore]_vars
SpecSimilarity == Init({DefaultReputation}, SimilarityArgs, NoSubmissions) /\ [][NextSimilarity]_vars
SpecHash == Init({DefaultReputation}, HashArgs, NoSubmissions) /\ [][NextHash]_vars
SpecRateConc == Init({DefaultReputation}, {NoCall}, NineSubmissions) /\ [][NextRateConc]_vars
SpecRate == Init({DefaultReputation}, {NoCall}, NoSubmissions) /\ [][NextRate]_vars
SpecGraph == Init({DefaultReputation}, GraphArgs, NoSubmissions) /\ [][NextGraph]_vars
SpecTraversal ==
    Init({DefaultReputation}, TraversalArgs, NoSubmissions) /\ [][NextTraversal]_vars
        /\ WF_vars(NextTraversal)
SpecSubmission == Init({DefaultReputation}, {NoCall}, NoSubmissions) /\ [][NextSubmission]_vars
SpecMinerDb == Init({DefaultReputation}, {NoCall}, NoSubmissions) /\ [][NextMinerDb]_vars
SpecAxon == Init({DefaultReputation}, AxonArgs, NoSubmissions) /\ [][NextAxon]_vars
SpecVerify == Init({DefaultReputation}, VerifyArgs, NoSubmissions) /\ [][NextVerify]_vars
SpecGaming == Init({DefaultReputation}, GamingArgs \cup DecisionArgs \cup AuthenticityArgs \cup CoordinationArgs, NoSubmissions) /\ [][NextGaming]_vars

\* ================================================================ claims

\* C1: in a sequence of register_pattern_discovery calls, the first call for
\* a digest returns is_first_discovery with credit 1.0; a later call at most
\* 300 s after the recorded first-seen time returns credit 0.5 within the
\* grace period; a later call more than 300 s after it returns credit 0.0.
C1_CreditFollowsTiming ==
    \A t \in Threads :
        regResult[t].kind = "result" =>
            LET r == regResult[t] IN
            /\ r.first_call =>
                    r.is_first_discovery /\ r.credit_multiplier = "1.0"
            /\ (~r.first_call /\ r.current_time - r.recorded <= 300) =>
                    /\ ~r.is_first_discovery
                    /\ r.is_within_grace_period
                    /\ r.credit_multiplier = "0.5"
            /\ (~r.first_call /\ r.current_time - r.recorded > 300) =>
                    /\ ~r.is_first_discovery
                    /\ ~r.is_within_grace_period
                    /\ r.credit_multiplier = "0.0"

\* a call exactly 300 s after the first one got 0.5 and another, later one 0.0
C1_Witness ==
    \E t, u \in Threads :
        /\ regResult[t].kind = "result" /\ regResult[u].kind = "result"
        /\ ~regResult[t].first_call
        /\ regResult[t].current_time - regResult[t].recorded = 300
        /\ regResult[t].credit_multiplier = "0.5"
        /\ regResult[u].pattern_hash = regResult[t].pattern_hash
        /\ regResult[u].current_time - regResult[u].recorded > 300
        /\ regResult[u].credit_multiplier = "0.0"

\* C2: whatever the interleaving of concurrent register_pattern_discovery
\* calls, no two calls return is_first_discovery for the same digest.
C2_AtMostOneFirstDiscovery ==
    \A h \in DOMAIN regFirsts : regFirsts[h] <= 1

\* C5: the registry is first-write-wins: a record, once it exists, is never
\* changed or removed by a later call.
C5_FirstWriteWins ==
    [][\A h \in DOMAIN discovery_registry :
            /\ h \in DOMAIN discovery_registry'
            /\ discovery_registry'[h] = discovery_registry[h]]_vars

\* a later call for a registered digest, by another submitter, has returned
C5_Witness ==
    \E t \in Threads :
        /\ regResult[t].kind = "result"
        /\ ~regResult[t].first_call
        /\ regResult[t].pattern_hash \in DOMAIN discovery_registry
        /\ regResult[t].miner_hotkey # discovery_registry[regResult[t].pattern_hash].miner_hotkey
        /\ regResult[t].current_time > discovery_registry[regResult[t].pattern_hash].timestamp

\* C3: a pattern classified novel is inserted into the corpus (exact digest
\* and signature), so a later check of the same exact digest is a duplicate.
C3_NovelIsInserted ==
    \A i \in 1..Len(dupLog) :
        ~dupLog[i].is_duplicate =>
            /\ dupLog[i].pattern_hash \in DOMAIN stored_pattern_hashes
            /\ \A j \in (i + 1)..Len(dupLog) :
                    dupLog[j].pattern_hash = dupLog[i].pattern_hash => dupLog[j].is_duplicate

\* C4: two concurrent duplicate checks of patterns with the same exact
\* digest are never both classified novel.
C4_NotBothNovel ==
    \A t, u \in Threads :
        (/\ t # u
         /\ dupResult[t].kind = "answer" /\ dupResult[u].kind = "answer"
         /\ u \in dupResult[t].overlapped /\ t \in dupResult[u].overlapped
         /\ dupResult[t].pattern_hash = dupResult[u].pattern_hash)
        => ~(~dupResult[t].is_duplicate /\ ~dupResult[u].is_duplicate)
\* ---- relations between patterns, for C6 and C7
SameLetter(c, d) ==
    \/ c = d
    \/ c >= 65 /\ c <= 90 /\ d = c + 32
    \/ d >= 65 /\ d <= 90 /\ c = d + 32

SameAddress(a, b) == Len(a) = Len(b) /\ \A i \in 1..Len(a) : SameLetter(a[i], b[i])

\* the same edge, up to the letter case of its addresses
Recased(e, f) ==
    /\ SameAddress(e.from_address, f.from_address)
    /\ SameAddress(e.to_address, f.to_address)
    /\ e.amount = f.amount
    /\ e.timestamp = f.timestamp

\* the same edge, up to letter case and the decimals of the amount after the 6th
Benign(e, f) ==
    /\ SameAddress(e.from_address, f.from_address)
    /\ SameAddress(e.to_address, f.to_address)
    /\ Round6(e.amount) = Round6(f.amount)
    /\ e.timestamp = f.timestamp

RecasedReordering(P, Q) ==
    /\ Len(P) = Len(Q)
    /\ \E f \in Perms(Len(P)) : \A i \in 1..Len(P) : Recased(P[i], Q[f[i]])

BenignInOrder(P, Q) ==
    /\ Len(P) = Len(Q)
    /\ \A i \in 1..Len(P) : Benign(P[i], Q[i])

\* how many edges of P are e, up to benign differences
Occurrences(P, e) == Cardinality({i \in 1..Len(P) : Benign(P[i], e)})

\* some edge has no counterpart: the two patterns differ on an edge in a
\* rounded amount, a timestamp or a lower-cased address
DifferOnSomeEdge(P, Q) ==
    \E e \in {P[i] : i \in 1..Len(P)} \cup {Q[i] : i \in 1..Len(Q)} :
        Occurrences(P, e) # Occurrences(Q, e)

\* C6: the exact digest is unchanged when the letter case of from/to
\* addresses changes and when the edges are given in another order.
C6_ExactDigestCaseAndOrder ==
    (ret.kind = "hash" /\ RecasedReordering(args.p, args.q)) => ret.exact_p = ret.exact_q

\* two edges, swapped, one of them recased
C6_Witness ==
    /\ ret.kind = "hash"
    /\ Len(args.p) >= 2
    /\ RecasedReordering(args.p, args.q)
    /\ ~Recased(args.p[1], args.q[1])
    /\ \E i \in 1..Len(args.q) : \A j \in 1..Len(args.p) : args.q[i] # args.p[j]
    /\ ret.exact_p = ret.exact_q

\* C7: edge lists in the same order that differ only in letter case and in
\* amounts rounding to the same 6 decimals have the same canonical digest;
\* patterns that differ on some edge in a rounded amount, a timestamp or a
\* lower-cased address have different canonical inputs.
C7_CanonicalDigestTolerance ==
    ret.kind = "hash" =>
        /\ BenignInOrder(args.p, args.q) => ret.canonical_p = ret.canonical_q
        /\ DifferOnSomeEdge(args.p, args.q) => ret.canonical_input_p # ret.canonical_input_q

\* an edge replaced by one of another case and another 7th decimal
C7_Witness ==
    /\ ret.kind = "hash"
    /\ BenignInOrder(args.p, args.q)
    /\ \E i \in 1..Len(args.p) :
            /\ args.p[i].amount # args.q[i].amount
            /\ args.p[i].from_address # args.q[i].from_address
    /\ ret.canonical_p = ret.canonical_q

\* C8: similarity_score is symmetric, signatures with zero counts included.
C8_SimilaritySymmetric ==
    ret.kind = "similarity" =>
        /\ ret.ab.raised = None
        /\ ret.ba.raised = None
        /\ ret.ab.value = ret.ba.value

\* C9: after any sequence of update_with_pattern calls the multiplier is
\* within [0.1, 2.0].
C9_MultiplierBounded ==
    rep.reputation_multiplier >= 100 /\ rep.reputation_multiplier <= 2000

\* updates have been made and the raw multiplier is outside the range
C9_Witness ==
    /\ rep.total_patterns_submitted >= 2
    /\ (RawMultiplier(rep) < 100 \/ RawMultiplier(rep) > 2000)

\* C10: get_final_score is within [0, 1] for all component scores, those
\* outside [0, 1] included.
C10_FinalScoreBounded ==
    ret.kind = "score" => (ret.value >= 0 /\ ret.value <= 1000)

\* components above 1 and below 0, and a weighted sum outside [0, 1]
C10_Witness ==
    /\ ret.kind = "score"
    /\ args.complexity_score > 1000
    /\ args.uniqueness_score < 0
    /\ WeightedScore(args) > 1000

\* C11: the reported final score of a classified pattern is the clamped
\* weighted sum multiplied by the submitter's reputation multiplier, the
\* product clamped to [0, 1] again.
C11_ReportedScoreAppliesMultiplier ==
    ret.kind = "report" =>
        ret.value = Min(1000, Max(0,
            (Min(1000, Max(0, WeightedScore(args.pattern))) * rep.reputation_multiplier)
                \div 1000))

NearIdentical(p, q) ==
    LET sim == similarity_score(_calculate_graph_signature(p), _calculate_graph_signature(q))
    IN  sim.raised = None /\ sim.value > similarity_threshold

\* C13: the analysis of a submitter's sixth near-identical graph of the
\* hour, its recent window holding the five earlier ones, raises the
\* pattern_farming flag and recommends flag_for_review or reject.
C13_SixthSubmissionIsFarming ==
    ( /\ ret.kind = "gaming"
      /\ Len(args.recent_submissions) = 5
      /\ \A i \in 1..5 : NearIdentical(args.pattern, args.recent_submissions[i]) )
    => /\ "pattern_farming" \in ret.result.gaming_flags
       /\ ret.result.recommended_action \in {"flag_for_review", "reject"}

\* C14: the recommended action of a gaming analysis result is reject
\* exactly when the overall probability exceeds 0.8 or coordination is
\* flagged, otherwise flag_for_review exactly when the probability exceeds
\* 0.5, otherwise accept.
C14_DecisionRule ==
    ret.kind \in {"gaming", "decision"} =>
        LET r == ret.result
            high == r.overall_gaming_probability.num > 800 * r.overall_gaming_probability.den
            mid == r.overall_gaming_probability.num > 500 * r.overall_gaming_probability.den
            coordinated == "coordination_detected" \in r.gaming_flags
        IN  /\ r.recommended_action = "reject" <=> (high \/ coordinated)
            /\ r.recommended_action = "flag_for_review" <=> (~(high \/ coordinated) /\ mid)
            /\ r.recommended_action = "accept" <=> (~(high \/ coordinated) /\ ~mid)

\* a result rejected for coordination alone, its probability at most 0.5
C14_Witness ==
    /\ ret.kind \in {"gaming", "decision"}
    /\ "coordination_detected" \in ret.result.gaming_flags
    /\ ret.result.overall_gaming_probability.num * 2 <= ret.result.overall_gaming_probability.den * 1000
    /\ ret.result.recommended_action = "reject"

\* the edges of the graph are one simple directed cycle through all of its
\* nodes: the nodes can be put in a round, each with one edge to the next
IsSimpleCycle(graph) ==
    LET n == Len(graph.nodes)
        listed == {graph.nodes[i] : i \in 1..n}
    IN  /\ n >= 1 /\ Len(graph.edges) = n
        /\ \E round \in [1..n -> listed] :
              /\ \A i, j \in 1..n : round[i] = round[j] => i = j
              /\ {<<graph.edges[i].from_address, graph.edges[i].to_address>> : i \in 1..n}
                    = {<<round[i], round[(i % n) + 1]>> : i \in 1..n}

\* C15: a graph whose edges form exactly one simple directed cycle through
\* all of its nodes has cycle_count 1, whichever node is listed first.
C15_SimpleCycleCountsOnce ==
    (ret.kind = "cycles" /\ IsSimpleCycle(args)) => ret.value = 1

\* the cycle x -> y -> z -> x counted with z listed first
C15_Witness ==
    /\ ret.kind = "cycles" /\ IsSimpleCycle(args)
    /\ Len(args.nodes) = 3 /\ args.nodes[1] = <<122>>
    /\ \E i \in 1..3 : /\ args.edges[i].from_address = <<120>>
                       /\ args.edges[i].to_address = <<121>>
    /\ ret.value = 1

\* C19: a graph with more nodes or more edges than the size ceiling is
\* rejected, the complexity and signature analysis (depth, cycles) not run
\* on it. Whichever of 0..MaxGraphEdges - 1 the ceiling is, a graph that
\* exceeds them all is rejected.
C19_OversizedGraphRejected ==
    ( /\ ret.kind \in {"complexity", "signature"}
      /\ \A ceiling \in 0..(MaxGraphEdges - 1) :
            Len(args.nodes) > ceiling \/ Len(args.edges) > ceiling )
    => ret.outcome.raised # None

\* the submission lacks nodes, edges, a blockchain or an asset symbol
Degenerate(s) ==
    \/ s.transaction_graph.nodes = << >> \/ s.transaction_graph.edges = << >>
    \/ s.blockchain = << >> \/ s.asset_symbol = << >>

\* C16: a submission with no nodes, no edges, an empty blockchain or an
\* empty asset symbol is rejected at construction: the constructor raises,
\* the step leaves the dedup corpus, the discovery registry, the rate-limit
\* windows and the reputation as they were, and no analysis ever runs on
\* such a pattern.
C16_DegenerateRejectedAtConstruction ==
    /\ []( (constructed.kind = "constructed" /\ Degenerate(constructed.submission))
               => constructed.outcome.raised = "ValueError" )
    /\ []( \A i \in 1..Len(dupLog) :
               /\ dupLog[i].pattern.nodes # << >> /\ dupLog[i].pattern.edges # << >>
               /\ dupLog[i].pattern.blockchain # << >> /\ dupLog[i].pattern.asset_symbol # << >> )
    /\ [][ (constructed'.kind = "constructed" /\ Degenerate(constructed'.submission))
               => UNCHANGED <<stored_pattern_hashes, graph_signatures, dupLog,
                              discovery_registry, regCalls,
                              submission_rate_limits, rep>> ]_vars

\* a degenerate submission rejected after earlier patterns were analysed
\* and registered
C16_Witness ==
    /\ constructed.kind = "constructed" /\ Degenerate(constructed.submission)
    /\ constructed.outcome.raised = "ValueError"
    /\ Len(dupLog) > 0
    /\ DOMAIN discovery_registry # {}

C18_AtMostOneAcknowledgment ==
    \A i, j \in 1..Len(acknowledged_patterns) :
        ( /\ acknowledged_patterns[i].pattern_id = acknowledged_patterns[j].pattern_id
          /\ acknowledged_patterns[i].validator_hotkey = acknowledged_patterns[j].validator_hotkey )
        => i = j

\* C20: verify_pattern_on_chain returns a verification result for every
\* pattern, never raises; and when the blockchain of the pattern has no
\* interface or names no known network, or a transaction lookup raises,
\* the result is not valid and records an error.
C20_AlwaysAResult ==
    ret.kind = "verify" =>
        /\ ret.outcome.raised = None
        /\ ( \/ args.pattern.blockchain \notin args.interfaces
             \/ args.pattern.blockchain \notin KnownNetworks
             \/ \E i \in DOMAIN args.lookups : args.lookups[i] = "raises" )
           => /\ ~ret.outcome.value.is_valid
              /\ ret.outcome.value.verification_errors > 0

\* C21: only timestamps strictly older than 3600 s are pruned: an accepted
\* submission that is exactly 3600 s old still counts toward the limit of
\* 10, so a call is accepted exactly when fewer than 10 of the submitter's
\* earlier accepted calls are at most 3600 s old.
C21_ExactlyAnHourOldStillCounts ==
    \A m \in Miners : \A i \in DOMAIN rateLog[m] :
        LET counted == {j \in 1..(i - 1) :
                           /\ rateLog[m][j].accepted
                           /\ rateLog[m][i].time - rateLog[m][j].time <= 3600}
        IN  rateLog[m][i].accepted <=> Cardinality(counted) < 10


\* C22: a rejected validate_submission_rate call records nothing: the
\* stored timestamps are the same after the call as before it, and every
\* stored timestamp is the time of an accepted call, so rejected attempts
\* never push back the moment the submitter is accepted again.
C22_RejectedCallRecordsNothing ==
    /\ [](\A m \in DOMAIN submission_rate_limits :
            \A k \in DOMAIN submission_rate_limits[m] :
                \E i \in DOMAIN rateLog[m] :
                    /\ rateLog[m][i].accepted
                    /\ rateLog[m][i].time = submission_rate_limits[m][k])
    /\ [][\A m \in Miners :
            (/\ Len(rateLog'[m]) = Len(rateLog[m]) + 1
             /\ ~rateLog'[m][Len(rateLog'[m])].accepted)
            => submission_rate_limits' = submission_rate_limits]_vars

\* a call was rejected, and a later call of the same submitter was
\* accepted once the ten stored timestamps had left the window: it alone
\* is stored
C22_Witness ==
    \E m \in Miners : \E i, j \in DOMAIN rateLog[m] :
        /\ i < j
        /\ ~rateLog[m][i].accepted
        /\ rateLog[m][j].accepted
        /\ m \in DOMAIN submission_rate_limits
        /\ Len(submission_rate_limits[m]) = 1

\* how often x occurs in the sequence s
CountOf(s, x) == Cardinality({k \in DOMAIN s : s[k] = x})

\* C23: under any interleaving of concurrent validate_submission_rate
\* calls of one submitter the calls behave as if serialized: no more than
\* 10 calls are accepted within one rolling hour, and no accepted timestamp
\* still inside the window is missing from the stored list.
C23_ConcurrentCallsSerialized ==
    \A m \in Miners :
        /\ \A i \in DOMAIN rateLog[m] :
              rateLog[m][i].accepted =>
                  Cardinality({j \in DOMAIN rateLog[m] :
                                  /\ rateLog[m][j].accepted
                                  /\ rateLog[m][j].time <= rateLog[m][i].time
                                  /\ rateLog[m][i].time - rateLog[m][j].time < 3600}) <= 10
        /\ \A i \in DOMAIN rateLog[m] :
              (rateLog[m][i].accepted /\ clock - rateLog[m][i].time < 3600) =>
                  CountOf(TrackedSubmissions(submission_rate_limits, m), rateLog[m][i].time)
                      >= Cardinality({j \in DOMAIN rateLog[m] :
                                         /\ rateLog[m][j].accepted
                                         /\ rateLog[m][j].time = rateLog[m][i].time})

\* C24: under any interleaving of concurrent update_with_pattern calls
\* on one MinerReputation no update is lost: once n calls have returned
\* and none is in progress, total_patterns_submitted is n and
\* verified_patterns + rejected_patterns is n.
C24_NoUpdateLost ==
    (\A t \in Threads : updPc[t] = "idle") =>
        /\ rep.total_patterns_submitted = updDone
        /\ rep.verified_patterns + rep.rejected_patterns = updDone

\* C25: with no address-age oracle the address-age check is a no-op: for
\* every submission analysed the new-address ratio is 0, the flag
\* 'suspicious_address_ages' is not raised and no 'address_age' confidence
\* is recorded.
C25_AddressAgeCheckIsNoOp ==
    ret.kind = "gaming" =>
        /\ _analyze_address_ages(args.pattern).suspicious_new_address_ratio = 0
        /\ ~_analyze_address_ages(args.pattern).is_suspicious
        /\ "suspicious_address_ages" \notin ret.result.gaming_flags
        /\ "address_age" \notin DOMAIN ret.result.confidence_scores

\* a submission was analysed and rejected on other flags, none of them
\* the address-age flag
C25_Witness ==
    /\ ret.kind = "gaming"
    /\ ret.result.recommended_action = "reject"
    /\ ret.result.gaming_flags = {"coordination_detected", "pattern_farming"}

\* the sub-signals of an analysis that strictly exceed their thresholds
\* (circular 0.5, dust 0.3, temporal clustering 0.8, round numbers 0.6)
ExceedingSignals(a) ==
    {k \in {"circular", "dust", "temporal", "round"} :
        \/ k = "circular" /\ a.circular_ratio > 500
        \/ k = "dust" /\ a.dust_ratio > 300
        \/ k = "temporal" /\ a.temporal_clustering > 800
        \/ k = "round" /\ a.round_number_bias > 600}

\* C26: for all values of the four sub-signals a pattern is flagged
\* artificially complex exactly when at least 2 of them strictly exceed
\* their thresholds, and the confidence is the number exceeding over 4;
\* the analysis of a submitted pattern follows the same rule on the
\* sub-signals computed for it.
C26_ArtificialIffTwoSignalsExceed ==
    /\ ret.kind = "authenticity" =>
          /\ ret.result.is_artificially_complex
                 <=> Cardinality(ExceedingSignals(args)) >= 2
          /\ ret.result.confidence * 4 = Cardinality(ExceedingSignals(args)) * 1000
    /\ ret.kind = "gaming" =>
          LET a == _analyze_pattern_authenticity(args.pattern)
          IN  /\ a.is_artificially_complex <=> Cardinality(ExceedingSignals(a)) >= 2
              /\ a.confidence * 4 = Cardinality(ExceedingSignals(a)) * 1000
              /\ "artificial_complexity" \in ret.result.gaming_flags
                     <=> a.is_artificially_complex

\* two sub-signals are just above their thresholds and two exactly at
\* theirs: flagged, with confidence 0.5
C26_Witness ==
    /\ ret.kind = "authenticity"
    /\ args.circular_ratio = 500 /\ args.dust_ratio = 301
    /\ args.temporal_clustering = 801 /\ args.round_number_bias = 600
    /\ ret.result.is_artificially_complex
    /\ ret.result.confidence = 500

\* the Jaccard overlap of the node-address sets of p and q is strictly
\* greater than 0.5: twice the common addresses outnumber all of them
JaccardAboveHalf(p, q) ==
    2 * Cardinality(NodeAddresses(p) \cap NodeAddresses(q))
        > Cardinality(NodeAddresses(p) \cup NodeAddresses(q))

\* C27: coordination is flagged exactly when the timestamps of the recent
\* window show suspicious timing correlation or the Jaccard overlap of the
\* submission's node addresses with those of at least one recent
\* submission is strictly greater than 0.5; with an empty recent window it
\* is never flagged. The flag of the whole analysis follows the same rule.
C27_CoordinationIffTimingOrOverlap ==
    LET expected ==
            \/ _has_suspicious_timing_correlation(SubmissionTimes(args.recent_submissions))
            \/ \E i \in DOMAIN args.recent_submissions :
                   JaccardAboveHalf(args.pattern, args.recent_submissions[i])
    IN  /\ ret.kind = "coordination" =>
              /\ ret.result.has_coordination_indicators <=> expected
              /\ args.recent_submissions = << >> => ~ret.result.has_coordination_indicators
        /\ ret.kind = "gaming" =>
              /\ "coordination_detected" \in ret.result.gaming_flags <=> expected
              /\ args.recent_submissions = << >> =>
                     "coordination_detected" \notin ret.result.gaming_flags

\* a submission sharing exactly half of the addresses with one recent
\* submission and two thirds with another is flagged
C27_Witness ==
    /\ ret.kind = "coordination"
    /\ Len(args.recent_submissions) = 2
    /\ Cardinality(NodeAddresses(args.pattern)) = 2
    /\ Cardinality(NodeAddresses(args.recent_submissions[1])) = 1
    /\ Cardinality(NodeAddresses(args.recent_submissions[2])) = 3
    /\ ret.result.has_coordination_indicators

\* the confidence each analysis reports for a submission, by the key it
\* is recorded under, and the flag each analysis raises
AnalysisConfidence(pattern, recent_submissions) ==
    [address_age |-> _analyze_address_ages(pattern).confidence,
     complexity |-> _analyze_pattern_authenticity(pattern).confidence,
     coordination |-> _detect_coordination(pattern, recent_submissions).confidence,
     farming |-> 800]

FlagOfKey ==
    [address_age |-> "suspicious_address_ages", complexity |-> "artificial_complexity",
     coordination |-> "coordination_detected", farming |-> "pattern_farming"]

\* the sum of f over the keys in K
RECURSIVE SumOver(_, _)
SumOver(f, K) ==
    IF K = {} THEN 0
    ELSE LET k == CHOOSE x \in K : TRUE IN f[k] + SumOver(f, K \ {k})

\* C28: overall_gaming_probability is the arithmetic mean of the
\* confidences of exactly those analyses that raised a flag, is 0 when no
\* flag is raised, and lies in [0, 1]; for any recorded confidences in
\* [0, 1] it is their mean and lies in [0, 1].
C28_ProbabilityIsMeanOfFlagged ==
    LET p == ret.result.overall_gaming_probability IN
    /\ ret.kind = "gaming" =>
          LET flagged == {k \in ConfidenceKeys : FlagOfKey[k] \in ret.result.gaming_flags}
              confidence == AnalysisConfidence(args.pattern, args.recent_submissions)
          IN  /\ DOMAIN ret.result.confidence_scores = flagged
              /\ flagged = {} => p.num = 0
              /\ flagged # {} =>
                     p.num * Cardinality(flagged) = SumOver(confidence, flagged) * p.den
              /\ p.den > 0 /\ 0 <= p.num /\ p.num <= 1000 * p.den
    /\ ret.kind = "decision" =>
          LET keys == DOMAIN args.confidence_scores
          IN  /\ keys = {} => p.num = 0
              /\ keys # {} =>
                     p.num * Cardinality(keys) = SumOver(args.confidence_scores, keys) * p.den
              /\ p.den > 0 /\ 0 <= p.num /\ p.num <= 1000 * p.den

\* two analyses flagged, coordination with confidence 0.5 and farming
\* with 0.8: the probability is 0.65
C28_Witness ==
    /\ ret.kind = "gaming"
    /\ ret.result.gaming_flags = {"coordination_detected", "pattern_farming"}
    /\ ret.result.overall_gaming_probability.num * 1000
           = 650 * 1000 * ret.result.overall_gaming_probability.den

\* the largest number in a non-empty set, 0 for the empty set
MaxOf(S) == IF S = {} THEN 0 ELSE CHOOSE d \in S : \A e \in S : e <= d

\* the number of edges of the longest simple directed path that starts at
\* address and stays off the addresses in onPath
RECURSIVE LongestSimplePathFrom(_, _, _)
LongestSimplePathFrom(graph, address, onPath) ==
    MaxOf({1 + LongestSimplePathFrom(graph, graph.edges[i].to_address, onPath \cup {address}) :
              i \in {k \in DOMAIN graph.edges :
                        /\ graph.edges[k].from_address = address
                        /\ graph.edges[k].to_address \notin onPath \cup {address}}})

\* the longest simple directed path from any node of the graph
LongestSimplePath(graph) ==
    MaxOf({LongestSimplePathFrom(graph, graph.nodes[i], {}) : i \in DOMAIN graph.nodes})

\* C29: for every graph the computed depth is the number of edges of the
\* longest simple directed path; an edge leading back to a node already on
\* the current path adds nothing to the depth.
C29_DepthIsLongestSimplePath ==
    ret.kind = "depth" => ret.value = LongestSimplePath(args)

\* the addresses of a graph: its nodes and the endpoints of its edges
AllAddresses(graph) ==
    {graph.nodes[i] : i \in DOMAIN graph.nodes} \cup get_unique_addresses(graph)

\* C30: depth computation and cycle counting terminate on every finite
\* graph, with cycles, self-loops, parallel edges and edges whose endpoints
\* are not in the node list: the calls in progress never outnumber the
\* addresses of the graph by more than one, the traversal returns, and it
\* returns the depth or the cycle count.
C30_TraversalsTerminate ==
    /\ [](Len(travStack) <= Cardinality(AllAddresses(args)) + 1)
    /\ [](ret.kind = "returned" =>
              ret.value = IF args.kind = "depth" THEN _calculate_graph_depth(args)
                          ELSE _count_cycles(args))
    /\ <>(ret.kind = "returned")

\* a traversal has returned on a graph that has a two-node cycle, a
\* self-loop, a pair of parallel edges and an edge to an address that is
\* not in the node list
C30_Witness ==
    /\ ret.kind = "returned"
    /\ \E a, b \in TraversalAddresses :
          /\ a # b
          /\ args.nodes = <<a>>
          /\ \E i, j, k, l \in DOMAIN args.edges :
                /\ i # j
                /\ args.edges[i].from_address = a /\ args.edges[i].to_address = b
                /\ args.edges[j] = args.edges[i]
                /\ args.edges[k].from_address = b /\ args.edges[k].to_address = a
                /\ args.edges[l].from_address = a /\ args.edges[l].to_address = a

\* the addresses reached from address a by one edge or more, found by
\* following edges until nothing new turns up
RECURSIVE ReachedFrom(_, _)
ReachedFrom(graph, found) ==
    LET next == found \cup {graph.edges[i].to_address :
                               i \in {k \in DOMAIN graph.edges : graph.edges[k].from_address \in found}}
    IN  IF next = found THEN found ELSE ReachedFrom(graph, next)

Successors(graph, a) ==
    {graph.edges[i].to_address : i \in {k \in DOMAIN graph.edges : graph.edges[k].from_address = a}}

\* the graph contains a directed cycle: some address is reached from
\* itself (a strongly connected component of 2 nodes or more, or a
\* self-loop)
HasDirectedCycle(graph) ==
    \E a \in AllAddresses(graph) : a \in ReachedFrom(graph, Successors(graph, a))

\* C31: for every graph cycle_count is greater than 0 exactly when the
\* graph contains a directed cycle, in whatever order its nodes and edges
\* are listed.
C31_CycleCountPositiveIffCycle ==
    ret.kind = "cycles" => (ret.value > 0 <=> HasDirectedCycle(args))

\* C32: after any sequence of update_with_pattern calls on one newly
\* constructed reputation, total_patterns_submitted is the number of
\* calls, verified_patterns + rejected_patterns is the total,
\* verified_patterns is the number of calls whose status was 'verified',
\* and verification_success_rate is verified_patterns over the total (in
\* thousandths, rounded down).
C32_CountersFollowCalls ==
    /\ rep.total_patterns_submitted = updDone
    /\ rep.verified_patterns + rep.rejected_patterns = rep.total_patterns_submitted
    /\ rep.verified_patterns = updVerified
    /\ rep.total_patterns_submitted > 0 =>
          /\ rep.verification_success_rate * rep.total_patterns_submitted
                 <= rep.verified_patterns * 1000
          /\ rep.verified_patterns * 1000
                 < (rep.verification_success_rate + 1) * rep.total_patterns_submitted

\* three calls, two of them with a verified pattern and the last one with
\* a pending one: the success rate is 2/3
C32_Witness ==
    /\ updDone = 3
    /\ rep.verified_patterns = 2 /\ rep.rejected_patterns = 1
    /\ rep.verification_success_rate = 666
    /\ updLast.kind = "pattern"
    /\ updLast.pattern.verification_status = "pending"

\* C33: update_with_pattern changes average_pattern_score and
\* average_complexity_score only when the pattern's status is 'verified',
\* each becoming 0.1 x new value + 0.9 x old value (the final score of the
\* pattern, and its complexity score); for any other status both averages
\* are left unchanged.
C33_AveragesMoveOnlyWhenVerified ==
    [][updDone' = updDone + 1 =>
          LET pattern == updLast'.pattern IN
          IF pattern.verification_status = "verified"
          THEN /\ 1000 * rep'.average_pattern_score
                      <= 100 * get_final_score(pattern) + 900 * rep.average_pattern_score
               /\ 100 * get_final_score(pattern) + 900 * rep.average_pattern_score
                      < 1000 * (rep'.average_pattern_score + 1)
               /\ 1000 * rep'.average_complexity_score
                      <= 100 * pattern.complexity_score + 900 * rep.average_complexity_score
               /\ 100 * pattern.complexity_score + 900 * rep.average_complexity_score
                      < 1000 * (rep'.average_complexity_score + 1)
          ELSE /\ rep'.average_pattern_score = rep.average_pattern_score
               /\ rep'.average_complexity_score = rep.average_complexity_score]_vars

\* a verified pattern has moved both averages, and a later pattern that
\* was not verified has left them where they were
C33_Witness ==
    /\ updDone >= 2
    /\ updLast.kind = "pattern"
    /\ updLast.pattern.verification_status = "failed"
    /\ rep.average_pattern_score = 100
    /\ rep.average_complexity_score = 300

\* the bonus of the claim: 0.3 for the high condition, otherwise 0.1 for
\* the low one, never both
ExpectedBonus(r) ==
    IF r.verification_success_rate > 900 /\ r.average_pattern_score > 700
           /\ r.total_patterns_submitted > 50
    THEN 300
    ELSE IF r.verification_success_rate > 800 /\ r.average_pattern_score > 600
    THEN 100
    ELSE 0

\* 1.0 minus the two penalties plus the bonus, clamped to [0.1, 2.0]
ExpectedMultiplier(r) ==
    LET balance == IF r.historical_pattern_ratio < 300
                   THEN (500 * (300 - r.historical_pattern_ratio)) \div 1000 ELSE 0
        gaming == r.duplicate_submission_count * 100 + r.gaming_penalty_score
        raw == 1000 - balance - (IF gaming < 800 THEN gaming ELSE 800) + ExpectedBonus(r)
    IN  IF raw < 100 THEN 100 ELSE IF raw > 2000 THEN 2000 ELSE raw

Unacknowledged(validator_hotkey) ==
    {patterns[i] : i \in {j \in 1..Len(patterns) :
        ~\E k \in 1..Len(acknowledged_patterns) :
            /\ acknowledged_patterns[k].pattern_id = patterns[j].id
            /\ acknowledged_patterns[k].validator_hotkey = validator_hotkey}}

\* C36: a validator that calls get_unacknowledged_patterns and
\* acknowledges what it returns receives every stored pattern once, in
\* ascending id order whatever the importance, until none is left: each
\* call made while the validator has unacknowledged patterns returns the
\* one of lowest id among them.
C36_EveryRoundDeliversNextPattern ==
    [][\A v \in Validators :
          ( /\ lastGet' # lastGet
            /\ lastGet'.validator_hotkey = v
            /\ Unacknowledged(v) # {} )
          => /\ lastGet'.outcome.raised = None
             /\ lastGet'.outcome.value \in Unacknowledged(v)
             /\ \A row \in Unacknowledged(v) : lastGet'.outcome.value.id <= row.id]_vars

\* Q is P with its edges in another order
Reordering(P, Q) ==
    /\ Len(P) = Len(Q)
    /\ \E f \in Perms(Len(P)) : \A i \in 1..Len(P) : P[i] = Q[f[i]]

\* C37: the canonical digest is the same for every order of the edge
\* list, edges that share timestamp and rounded amount included; hence
\* two patterns of equal exact digests have equal canonical digests.
C37_CanonicalDigestOrderInvariant ==
    ret.kind = "hash" =>
        /\ Reordering(args.p, args.q) => ret.canonical_p = ret.canonical_q
        /\ ret.exact_p = ret.exact_q => ret.canonical_p = ret.canonical_q

\* flags and confidences as comprehensive_gaming_analysis hands them to
\* _determine_recommended_action: one confidence per flag raised, of a
\* value its analysis gives together with the flag (a ratio above 0.7;
\* two, three or four sub-signals of four; one or two indicators of two;
\* 0.8)
AsAnalysesReport(gaming_flags, confidence_scores) ==
    LET keys == DOMAIN confidence_scores
    IN  /\ gaming_flags = {FlagOfKey[k] : k \in keys}
        /\ "address_age" \in keys => confidence_scores["address_age"] > 700
        /\ "complexity" \in keys => confidence_scores["complexity"] \in {500, 750, 1000}
        /\ "coordination" \in keys => confidence_scores["coordination"] \in {500, 1000}
        /\ "farming" \in keys => confidence_scores["farming"] = 800

UntouchedFields(r) ==
    <<r.duplicate_submission_count, r.gaming_penalty_score, r.historical_pattern_ratio,
      r.base_reputation_score, r.first_submission_timestamp>>

\* C39: update_with_pattern never changes duplicate_submission_count,
\* gaming_penalty_score, historical_pattern_ratio, base_reputation_score
\* or first_submission_timestamp; hence a reputation that started fresh
\* has, after any sequence of classified results, a multiplier that is
\* not below 1.0 and not above 1.3.
C39_UpdateLeavesPenaltyFieldsAlone ==
    /\ [][UntouchedFields(rep') = UntouchedFields(rep)]_vars
    /\ [](UntouchedFields(rep) = UntouchedFields(DefaultReputation)
            => /\ rep.reputation_multiplier >= 1000
               /\ rep.reputation_multiplier <= 1300)

\* a reputation that started fresh has been updated and has the high
\* bonus: its multiplier is 1.3
C39_Witness ==
    /\ updDone > 0
    /\ UntouchedFields(rep) = UntouchedFields(DefaultReputation)
    /\ rep.total_patterns_submitted > 50
    /\ rep.reputation_multiplier = 1300

\* C40: the blacklist check of a PatternQuery request ends with a
\* decision (blacklisted, reason): a request without a dendrite or hotkey
\* is blacklisted, and a request from a hotkey that is not registered in
\* the metagraph is blacklisted as 'Unrecognized hotkey' when
\* non-registered callers are not allowed.
C40_BlacklistDecides ==
    (args.kind = "PatternQuery" /\ ret.kind = "blacklist") =>
        LET dendrite == args.synapse.dendrite
            missing == dendrite.kind = None \/ dendrite.hotkey = None
            registered == \E i \in 1..Len(args.metagraph.hotkeys) :
                              args.metagraph.hotkeys[i] = dendrite.hotkey
        IN  /\ ret.outcome.raised = None
            /\ missing => ret.outcome.value[1]
            /\ (~missing /\ ~registered /\ ~args.config.allow_non_registered)
                   => ret.outcome.value = <<TRUE, "Unrecognized hotkey">>

====
